---- MODULE Spec2Model ----
(***************************************************************************)
(* Verification model of the vimrc configuration pipeline of               *)
(* obsidian-new-vimrc: the Backend Adapter (VimAdapter) with its operation *)
(* queue and drain loop, the parser's variable table, the command          *)
(* handlers, the Mapping Store, the Mapping Applier and the Load           *)
(* Coordinator (VimrcLoader).                                              *)
(*                                                                         *)
(* JavaScript runs one event loop: the code between two suspension points  *)
(* is atomic with respect to the callers of the Adapter.  The backend      *)
(* handle (window.CodeMirrorAdapter.Vim) is a global owned by the host, so *)
(* every probe of it is a separate read of the environment.                *)
(***************************************************************************)
EXTENDS Integers, Sequences, FiniteSets, TLC

(***************************************************************************)
(* Bounds of the model.                                                    *)
(***************************************************************************)
MaxCalls == 3
maxRetries == 2
MaxLoads == 3
MaxClock == 1
MaxWaits == 3
readyTimeout == 2
retryInterval == 1
MaxListed == 2
MaxLegacy == 1
MaxErrors == 1
MaxObjects == 3
MaxStoreEvents == 4

(***************************************************************************)
(* Generic sequence helpers.                                               *)
(***************************************************************************)
Range(s) == {s[i] : i \in 1..Len(s)}

(***************************************************************************)
(* JavaScript strings.  A string is a sequence of characters: Len, Head,   *)
(* Tail, SubSeq and \o apply to it.                                        *)
(***************************************************************************)
Ch(s, i) == SubSeq(s, i, i)

LowerCase == "abcdefghijklmnopqrstuvwxyz"
UpperCase == "ABCDEFGHIJKLMNOPQRSTUVWXYZ"
Digits == "0123456789"

Chars(s) == {Ch(s, i) : i \in 1..Len(s)}

\* \s of a regular expression, and the characters trim() removes.
IsSpace(c) == c \in {" ", "\t", "\r", "\n", "\f"}

\* \w of a regular expression.
IsWord(c) == c \in Chars(LowerCase) \cup Chars(UpperCase) \cup Chars(Digits) \cup {"_"}

upperChar(c) ==
  IF c \in Chars(LowerCase)
    THEN Ch(UpperCase, CHOOSE i \in 1..Len(LowerCase) : Ch(LowerCase, i) = c)
    ELSE c

lowerChar(c) ==
  IF c \in Chars(UpperCase)
    THEN Ch(LowerCase, CHOOSE i \in 1..Len(UpperCase) : Ch(UpperCase, i) = c)
    ELSE c

RECURSIVE toUpperCase(_)
toUpperCase(s) == IF s = "" THEN "" ELSE upperChar(Head(s)) \o toUpperCase(Tail(s))

RECURSIVE toLowerCase(_)
toLowerCase(s) == IF s = "" THEN "" ELSE lowerChar(Head(s)) \o toLowerCase(Tail(s))

RECURSIVE trimStart(_)
trimStart(s) == IF s # "" /\ IsSpace(Head(s)) THEN trimStart(Tail(s)) ELSE s

RECURSIVE trimEnd(_)
trimEnd(s) ==
  IF s # "" /\ IsSpace(Ch(s, Len(s))) THEN trimEnd(SubSeq(s, 1, Len(s) - 1)) ELSE s

trim(s) == trimEnd(trimStart(s))

startsWith(s, p) == Len(s) >= Len(p) /\ SubSeq(s, 1, Len(p)) = p
endsWith(s, p) == Len(s) >= Len(p) /\ SubSeq(s, Len(s) - Len(p) + 1, Len(s)) = p
includes(s, p) == \E i \in 1..Len(s) : startsWith(SubSeq(s, i, Len(s)), p)

\* s.split(c) for a one-character separator c.
RECURSIVE splitFrom(_, _, _, _)
splitFrom(s, c, cur, acc) ==
  IF s = "" THEN Append(acc, cur)
  ELSE IF Head(s) = c THEN splitFrom(Tail(s), c, "", Append(acc, cur))
  ELSE splitFrom(Tail(s), c, cur \o Head(s), acc)

split(s, c) == splitFrom(s, c, "", <<>>)

\* s.split(/\s+/)
RECURSIVE splitSpacesFrom(_, _, _)
splitSpacesFrom(s, cur, acc) ==
  IF s = "" THEN Append(acc, cur)
  ELSE IF IsSpace(Head(s)) THEN splitSpacesFrom(trimStart(s), "", Append(acc, cur))
  ELSE splitSpacesFrom(Tail(s), cur \o Head(s), acc)

splitSpaces(s) == splitSpacesFrom(s, "", <<>>)

\* parts.join(sep)
RECURSIVE join(_, _)
join(parts, sep) ==
  IF parts = <<>> THEN ""
  ELSE IF Len(parts) = 1 THEN parts[1]
  ELSE parts[1] \o sep \o join(Tail(parts), sep)

\* s.replace(new RegExp(pat, 'g' or 'gi'), rep) for a pattern without
\* metacharacters and a replacement without $ patterns.
RECURSIVE replaceAll(_, _, _, _)
replaceAll(s, pat, rep, ignoreCase) ==
  IF Len(s) < Len(pat) \/ pat = "" THEN s
  ELSE LET here == SubSeq(s, 1, Len(pat))
           hit == IF ignoreCase THEN toLowerCase(here) = toLowerCase(pat)
                                ELSE here = pat
       IN IF hit
            THEN rep \o replaceAll(SubSeq(s, Len(pat) + 1, Len(s)), pat, rep, ignoreCase)
            ELSE Head(s) \o replaceAll(Tail(s), pat, rep, ignoreCase)

VARIABLES
  apiAvailable,      \* window.CodeMirrorAdapter.Vim exists (owned by the host)
  backendRejects,    \* key sequences on which the backend throws
  operationQueue,    \* VimAdapter.operationQueue
  isProcessingQueue, \* VimAdapter.isProcessingQueue
  pq,                \* frame of the processQueue coroutine: pc, retries, shifted op
  backendLog,        \* calls received by the backend, in order (mock backend)
  adapterEvents,     \* VIM_READY / VIM_UNAVAILABLE notifications, in order
  requested,         \* history: every primitive call made on the Adapter
  discarded,         \* history: operations dropped by clearQueue()/cleanup()
  requeued,          \* history: executeOperation has put an operation back
  file,              \* the vimrc file of the vault (owned by the host)
  variables,         \* VimrcParser.variables, in insertion order
  leaderKey,         \* MappingHandler.leaderKey
  mappingIdCounter,  \* MappingHandler.mappingIdCounter
  objects,           \* the KeyMapping objects ever created; a reference is an index
  mappings,          \* MappingStore.mappings: id -> reference, in insertion order
  appliedMappings,   \* MappingApplier.appliedMappings: key -> reference, in insertion order
  obmapDefinitions,  \* ObmapHandler.obmapDefinitions
  exmapDefinitions,  \* ExmapHandler.exmapDefinitions, in insertion order
  appliedObmaps,     \* VimrcLoader.appliedObmaps
  appliedExmaps,     \* VimrcLoader.appliedExmaps
  clock,             \* Date.now()
  events,            \* notifications on the EventBus other than the Adapter's
  ld,                \* frame of the load()/reload() call in progress
  results,           \* history: how every load()/reload() call ended
  readyPromise,      \* VimAdapter.readyPromise: a reference into promises, 0 for null
  promises,          \* the promises waitForReady() has made, each with its poller
  waits,             \* history: the promise every waitForReady() call returned
  handlers,          \* CommandRegistry.handlers: command type -> handlers, in order
  allHandlers,       \* CommandRegistry.allHandlers
  legacyHandlers,    \* CommandRegistry.legacyHandlers
  allLegacyHandlers, \* CommandRegistry.allLegacyHandlers
  legacyContext,     \* CommandRegistry.legacyContext is set
  registered,        \* history: the handlers registered and not unregistered since
  registryCall,      \* history: the last call on the registry, what it invoked, how it ended
  applierCall,       \* history: the last apply/unapply call made directly on the Applier
  plugin             \* the plugin: its debounce timer and the load()/reload() calls it made

adapterVars == <<apiAvailable, backendRejects, operationQueue, isProcessingQueue,
                 pq, backendLog, adapterEvents, requested, discarded, requeued>>

loaderVars == <<file, variables, leaderKey, mappingIdCounter, objects, mappings, appliedMappings,
                obmapDefinitions, exmapDefinitions, appliedObmaps, appliedExmaps,
                clock, events, ld, results>>

readyVars == <<readyPromise, promises, waits>>

registryVars == <<handlers, allHandlers, legacyHandlers, allLegacyHandlers,
                  legacyContext, registered, registryCall>>

applierVars == <<applierCall>>
pluginVars == <<plugin>>

vars == <<adapterVars, loaderVars, readyVars, registryVars, applierVars,
          pluginVars>>

(***************************************************************************)
(* VimrcParser                                                             *)
(***************************************************************************)
\* CommandType; "undefined" is what the missing members CommandType.OMAP and
\* CommandType.ONOREMAP evaluate to.
CommandType == {"map", "nmap", "imap", "vmap", "noremap", "nnoremap", "inoremap",
                "vnoremap", "obcommand", "exmap", "obmap", "nobmap", "iobmap",
                "vobmap", "unmap", "nunmap", "iunmap", "vunmap", "let",
                "comment", "unknown", "undefined"}

MAPPING_COMMAND_TYPES == {"map", "nmap", "imap", "vmap", "noremap", "nnoremap",
                          "inoremap", "vnoremap", "unmap", "nunmap", "iunmap",
                          "vunmap"}
NON_RECURSIVE_COMMAND_TYPES == {"noremap", "nnoremap", "inoremap", "vnoremap"}
UNMAP_COMMAND_TYPES == {"unmap", "nunmap", "iunmap", "vunmap"}
OBMAP_COMMAND_TYPES == {"obmap", "nobmap", "iobmap", "vobmap"}
EXMAP_COMMAND_TYPES == {"exmap", "obcommand"}
LET_COMMAND_TYPES == {"let"}

ParsedCommand(type, args, lineNumber, raw) ==
  [type |-> type, args |-> args, lineNumber |-> lineNumber, raw |-> raw]

\* The switch of parseLine on the upper-cased keyword.
KeywordType(commandUpper) ==
  IF commandUpper \in {"MAP", "NMAP", "IMAP", "VMAP", "NOREMAP", "NNOREMAP",
                       "INOREMAP", "VNOREMAP", "OBCOMMAND", "EXMAP", "OBMAP",
                       "NOBMAP", "IOBMAP", "VOBMAP", "UNMAP", "NUNMAP", "IUNMAP",
                       "VUNMAP", "LET"}
    THEN toLowerCase(commandUpper)
  ELSE IF commandUpper \in {"OMAP", "ONOREMAP"} THEN "undefined"
  ELSE "unknown"

\* A Map in insertion order: set(key, entry) replaces in place or appends.
MapHas(m, key) == \E i \in 1..Len(m) : m[i].key = key
MapGet(m, key) == m[CHOOSE i \in 1..Len(m) : m[i].key = key]
MapSet(m, entry) ==
  IF MapHas(m, entry.key)
    THEN [i \in 1..Len(m) |-> IF m[i].key = entry.key THEN entry ELSE m[i]]
    ELSE Append(m, entry)
MapDelete(m, key) == SelectSeq(m, LAMBDA e : e.key # key)

\* The scan of removeInlineComment: the 1-based position of the comment's
\* opening quote, or 0 when the scan ends without finding one.
RECURSIVE commentStartFrom(_, _, _, _)
commentStartFrom(line, i, inQuote, quoteChar) ==
  IF i > Len(line) THEN 0
  ELSE LET char == Ch(line, i)
           prevChar == IF i > 1 THEN Ch(line, i - 1) ELSE ""
           quoteOutside == char \in {"\"", "'"} /\ ~inQuote
       IN IF quoteOutside /\ endsWith(trim(SubSeq(line, 1, i - 1)), "=")
            THEN commentStartFrom(line, i + 1, TRUE, char)
          ELSE IF ~quoteOutside /\ char = quoteChar /\ inQuote
            THEN commentStartFrom(line, i + 1, FALSE, "")
          ELSE IF ~inQuote /\ char = "\"" /\ prevChar \in {" ", "\t"}
            THEN i
          ELSE commentStartFrom(line, i + 1, inQuote, quoteChar)

removeInlineComment(line) ==
  LET commentStart == commentStartFrom(line, 1, FALSE, "")
  IN IF commentStart > 1 THEN trim(SubSeq(line, 1, commentStart - 1)) ELSE trim(line)

extractCommand(line) ==
  LET parts == splitSpaces(line)
  IN [command |-> parts[1], args |-> Tail(parts)]

\* Mutant: the arguments are left as written.
substituteNothing(vs, text) == text

\* substituteVariables: every <key> of the table, in insertion order.
RECURSIVE substituteVariables(_, _)
substituteVariables(vs, text) ==
  IF vs = <<>> THEN text
  ELSE substituteVariables(Tail(vs),
         replaceAll(text, "<" \o vs[1].key \o ">", vs[1].value, FALSE))

parseLine(vs, line, lineNumber) ==
  LET cleanLine == removeInlineComment(line)
  IN IF Len(cleanLine) = 0
       THEN ParsedCommand("comment", <<>>, lineNumber, line)
       ELSE LET ec == extractCommand(cleanLine)
                type == KeywordType(toUpperCase(ec.command))
                substitutedArgs == [i \in 1..Len(ec.args) |->
                                      substituteVariables(vs, ec.args[i])]
            IN ParsedCommand(type, substitutedArgs, lineNumber, line)

\* The longest prefix of word characters: what ^(\w+) captures.
RECURSIVE wordPrefix(_)
wordPrefix(s) ==
  IF s # "" /\ IsWord(Head(s)) THEN Head(s) \o wordPrefix(Tail(s)) ELSE ""

\* The two regular expressions of processLetCommand applied to the joined
\* arguments: /^(\w+)\s*=\s*["'](.*)["']$/ and /^(\w+)\s*=\s*(\S+)$/.
letMatch(assignmentStr) ==
  LET varName == wordPrefix(assignmentStr)
      afterName == trimStart(SubSeq(assignmentStr, Len(varName) + 1, Len(assignmentStr)))
      afterEq == trimStart(Tail(afterName))
      head == varName # "" /\ afterName # "" /\ Head(afterName) = "="
      quoted == /\ head
                /\ Len(afterEq) >= 2
                /\ Head(afterEq) \in {"\"", "'"}
                /\ Ch(afterEq, Len(afterEq)) \in {"\"", "'"}
      unquoted == /\ head
                  /\ afterEq # ""
                  /\ \A i \in 1..Len(afterEq) : ~IsSpace(Ch(afterEq, i))
  IN IF quoted
       THEN [matched |-> TRUE, varName |-> varName,
             varValue |-> SubSeq(afterEq, 2, Len(afterEq) - 1)]
     ELSE IF unquoted
       THEN [matched |-> TRUE, varName |-> varName, varValue |-> afterEq]
     ELSE [matched |-> FALSE, varName |-> "", varValue |-> ""]

\* processLetCommand; "gen" tags the entry with the call that assigned it.
processLetCommand(vs, command, gen) ==
  IF Len(command.args) = 0 THEN vs
  ELSE LET match == letMatch(join(command.args, " "))
           entry(k) == [key |-> k, value |-> match.varValue, gen |-> gen]
       IN IF ~match.matched THEN vs
          ELSE IF match.varName = "mapleader"
            THEN MapSet(MapSet(vs, entry("leader")), entry("mapleader"))
          ELSE MapSet(vs, entry(match.varName))

\* The loop of parse over the lines from line number i on.
RECURSIVE parseFrom(_, _, _, _)
parseFrom(lines, i, acc, gen) ==
  IF i > Len(lines) THEN acc
  ELSE LET line == trim(lines[i])
       IN IF Len(line) = 0 \/ startsWith(line, "\"")
            THEN parseFrom(lines, i + 1, acc, gen)
          ELSE LET command == parseLine(acc.variables, line, i)
               IN IF command.type = "comment"
                    THEN parseFrom(lines, i + 1, acc, gen)
                  ELSE IF command.type = "unknown"
                    THEN parseFrom(lines, i + 1,
                           [acc EXCEPT !.warnings = Append(@,
                                         [lineNumber |-> i,
                                          message |-> "Unknown command: "
                                                      \o splitSpaces(line)[1],
                                          raw |-> line]),
                                       !.commands = Append(@, command)], gen)
                  ELSE parseFrom(lines, i + 1,
                         [acc EXCEPT !.variables = IF command.type = "let"
                                                     THEN processLetCommand(@, command, gen)
                                                     ELSE @,
                                     !.commands = Append(@, command)], gen)

\* parse(content): the ParseResult, and the variable table it leaves.
parse(vs, content, gen) ==
  parseFrom(split(content, "\n"), 1,
            [commands |-> <<>>, errors |-> <<>>, warnings |-> <<>>, variables |-> vs],
            gen)

(***************************************************************************)
(* The services right after initializeServices(): nothing parsed, nothing  *)
(* stored, nothing applied, no load in progress.                           *)
(***************************************************************************)
\* The vimrc file of the vault; "exists" is what fileAdapter.exists resolves to.
NoFile == [exists |-> FALSE, content |-> ""]

\* LoadResult; path "" stands for null.
LoadResult(success, path, mappingCount, errors, warnings) ==
  [success |-> success, path |-> path, mappingCount |-> mappingCount,
   errors |-> errors, warnings |-> warnings]

\* The frame of load()/reload(): where the call stands and its locals.
\* "fileRaised" and "caught" record whether the file system raised an
\* exception during the call and whether load's catch block ran; "probe" is
\* what detectVimrcFile found; "routed" lists the commands passed to the
\* registry so far and "inFlight" counts the route() calls not yet settled.
IdleLoad == [pc |-> "idle", call |-> "none", gen |-> 0, content |-> "",
             commands |-> <<>>, idx |-> 0, sortedMappings |-> <<>>,
             logStart |-> 0, fileRaised |-> FALSE, caught |-> FALSE,
             probe |-> "none", routed |-> <<>>, inFlight |-> 0,
             result |-> LoadResult(FALSE, "", 0, <<>>, <<>>)]

ServicesInit ==
  /\ variables = <<>>
  /\ leaderKey = "\\"
  /\ mappingIdCounter = 0
  /\ objects = <<>>
  /\ mappings = <<>>
  /\ appliedMappings = <<>>
  /\ obmapDefinitions = <<>>
  /\ exmapDefinitions = <<>>
  /\ appliedObmaps = <<>>
  /\ appliedExmaps = <<>>
  /\ clock = 1
  /\ events = <<>>
  /\ ld = IdleLoad
  /\ results = <<>>
  /\ readyPromise = 0
  /\ promises = <<>>
  /\ waits = <<>>
  /\ handlers = [type \in CommandType |-> <<>>]
  /\ allHandlers = <<>>
  /\ legacyHandlers = [type \in CommandType |-> <<>>]
  /\ allLegacyHandlers = <<>>
  /\ legacyContext = FALSE
  /\ registered = {}
  /\ registryCall = [api |-> "none"]
  /\ applierCall = [api |-> "none", ref |-> 0, threw |-> FALSE]
  /\ plugin = [debounceTimer |-> FALSE, layoutReady |-> FALSE, calls |-> <<>>]

(***************************************************************************)
(* VimAdapter                                                              *)
(***************************************************************************)
OperationType == {"map", "noremap", "unmap", "mapclear", "defineMotion",
                  "defineAction", "defineOperator", "defineEx", "mapCommand"}

\* A queued operation.  "req" is the serial number of the primitive call that
\* produced it: it stands for the identity of the QueuedOperation object.
QueuedOperation(type, args, req) == [type |-> type, args |-> args, req |-> req]

NoOperation == QueuedOperation("none", <<>>, 0)

\* The frame of processQueue(); "running" counts the processQueue() calls that
\* have passed the guard of line 234 and not yet reached line 263.
IdleFrame ==
  [pc |-> "idle", retries |-> 0, op |-> NoOperation, exit |-> "none",
   running |-> 0]

\* The mutable state of the plugin's services and of the backend they talk to,
\* as one value, so that a synchronous run of calls is a composition of
\* operators on it.
\* "thrown" tells whether the last call let an exception escape to its caller.
World == [operationQueue |-> operationQueue,
          isProcessingQueue |-> isProcessingQueue,
          pq |-> pq,
          backendLog |-> backendLog,
          adapterEvents |-> adapterEvents,
          requested |-> requested,
          requeued |-> requeued,
          variables |-> variables,
          leaderKey |-> leaderKey,
          mappingIdCounter |-> mappingIdCounter,
          objects |-> objects,
          mappings |-> mappings,
          appliedMappings |-> appliedMappings,
          obmapDefinitions |-> obmapDefinitions,
          exmapDefinitions |-> exmapDefinitions,
          appliedObmaps |-> appliedObmaps,
          appliedExmaps |-> appliedExmaps,
          clock |-> clock,
          events |-> events,
          ld |-> ld,
          results |-> results,
          readyPromise |-> readyPromise,
          promises |-> promises,
          waits |-> waits,
          handlers |-> handlers,
          allHandlers |-> allHandlers,
          legacyHandlers |-> legacyHandlers,
          allLegacyHandlers |-> allLegacyHandlers,
          legacyContext |-> legacyContext,
          registered |-> registered,
          registryCall |-> registryCall,
          applierCall |-> applierCall,
          plugin |-> plugin,
          thrown |-> FALSE]

Commit(w) ==
  /\ operationQueue' = w.operationQueue
  /\ isProcessingQueue' = w.isProcessingQueue
  /\ pq' = w.pq
  /\ backendLog' = w.backendLog
  /\ adapterEvents' = w.adapterEvents
  /\ requested' = w.requested
  /\ requeued' = w.requeued
  /\ variables' = w.variables
  /\ leaderKey' = w.leaderKey
  /\ mappingIdCounter' = w.mappingIdCounter
  /\ objects' = w.objects
  /\ mappings' = w.mappings
  /\ appliedMappings' = w.appliedMappings
  /\ obmapDefinitions' = w.obmapDefinitions
  /\ exmapDefinitions' = w.exmapDefinitions
  /\ appliedObmaps' = w.appliedObmaps
  /\ appliedExmaps' = w.appliedExmaps
  /\ clock' = w.clock
  /\ events' = w.events
  /\ ld' = w.ld
  /\ results' = w.results
  /\ readyPromise' = w.readyPromise
  /\ promises' = w.promises
  /\ waits' = w.waits
  /\ handlers' = w.handlers
  /\ allHandlers' = w.allHandlers
  /\ legacyHandlers' = w.legacyHandlers
  /\ allLegacyHandlers' = w.allLegacyHandlers
  /\ legacyContext' = w.legacyContext
  /\ registered' = w.registered
  /\ registryCall' = w.registryCall
  /\ applierCall' = w.applierCall
  /\ plugin' = w.plugin

isAvailable == apiAvailable

\* The backend throws on the key sequences it rejects.
BackendThrows(op) == Len(op.args) > 0 /\ op.args[1] \in backendRejects

\* vimApi.<type>(...args): the backend receives the call, and may throw.
BackendCall(w, op, via) ==
  [w EXCEPT !.backendLog = Append(@, [op |-> op, via |-> via,
                                      threw |-> BackendThrows(op)])]

\* Mutant: no unavailable notification is emitted.
emitUnavailableSilent(w, reason) == w

emitUnavailable(w, reason) ==
  [w EXCEPT !.adapterEvents = Append(@, [type |-> "VIM_UNAVAILABLE", reason |-> reason])]

\* processQueue() up to its first probe: the guard, the flag, retries = 0.
processQueueStart(w) ==
  IF w.isProcessingQueue THEN w
  ELSE [w EXCEPT !.isProcessingQueue = TRUE,
                 !.pq = [pc |-> "outer", retries |-> 0, op |-> NoOperation,
                         exit |-> "none", running |-> w.pq.running + 1]]

\* Mutant: every enqueueing call starts a drain loop.
queueOperationStartsLoop(w, op) ==
  [w EXCEPT !.operationQueue = Append(@, op),
            !.isProcessingQueue = TRUE,
            !.pq = [pc |-> "outer", retries |-> 0, op |-> NoOperation,
                    exit |-> "none", running |-> w.pq.running + 1]]

queueOperation(w, op) ==
  LET pushed == [w EXCEPT !.operationQueue = Append(@, op)]
  IN IF ~pushed.isProcessingQueue THEN processQueueStart(pushed) ELSE pushed

\* map / noremap / unmap / mapclear / defineMotion / defineAction /
\* defineOperator / defineEx / mapCommand: the nine primitives share one shape.
\* Mutant: a primitive without the try block around the backend call.
primitiveUnguarded(w, type, args) ==
  LET op == QueuedOperation(type, args, Len(w.requested) + 1)
      w1 == [w EXCEPT !.requested = Append(@, op), !.thrown = FALSE]
  IN IF isAvailable
       THEN [BackendCall(w1, op, "direct") EXCEPT !.thrown = BackendThrows(op)]
       ELSE queueOperation(w1, op)

primitive(w, type, args) ==
  LET op == QueuedOperation(type, args, Len(w.requested) + 1)
      w1 == [w EXCEPT !.requested = Append(@, op), !.thrown = FALSE]
  IN IF isAvailable
       THEN BackendCall(w1, op, "direct")   \* try { ... } catch { log.error }
       ELSE queueOperation(w1, op)

\* Mutant: an operation found unexecutable is dropped instead of re-queued.
executeOperationDrop(w, op) ==
  IF ~isAvailable
    THEN [w EXCEPT !.requeued = TRUE]
    ELSE BackendCall(w, op, "queue")

\* Mutant: the operation is re-queued with push(), at the back of the queue.
executeOperationPushBack(w, op) ==
  IF ~isAvailable
    THEN [w EXCEPT !.operationQueue = Append(@, op), !.requeued = TRUE]
    ELSE BackendCall(w, op, "queue")

\* executeOperation(operation): run it, or put it back at the front.
executeOperation(w, op) ==
  IF ~isAvailable
    THEN [w EXCEPT !.operationQueue = <<op>> \o @, !.requeued = TRUE]
    ELSE BackendCall(w, op, "queue")        \* try { switch ... } catch { log.error }

\* load()/reload() is not running, or is waiting for the file system.
LoaderSuspended == ld.pc \in {"idle", "detect", "read"}

\* The caller's code runs only while processQueue is suspended or not running.
CallerMayRun == pq.pc \in {"idle", "sleep"}

\* The primitives and the key sequence the callers of this model use: the
\* nine primitives share one code shape, so two of them stand for all.
CallerTypes == {"map", "unmap"}
CallerKey == "k"

\* A caller invokes one of the primitives.
Primitive ==
  /\ CallerMayRun
  /\ Len(requested) < MaxCalls
  /\ \E type \in CallerTypes :
       Commit(primitive(World, type, <<CallerKey>>))
  /\ UNCHANGED <<apiAvailable, backendRejects, discarded, file>>

clearQueue ==
  /\ discarded' = discarded \cup Range(operationQueue)
  /\ operationQueue' = <<>>

ClearQueue ==
  /\ CallerMayRun
  /\ operationQueue # <<>>
  /\ clearQueue
  /\ UNCHANGED <<apiAvailable, backendRejects, isProcessingQueue, pq, backendLog,
                 adapterEvents, requested, requeued, loaderVars, readyVars,
                 registryVars, applierVars, pluginVars>>

\* Mutant: the loop gives up at the first unavailable probe, without retrying.
PQOuterStepNoRetry(w) ==
  IF Len(w.operationQueue) > 0 /\ w.pq.retries < maxRetries /\ isAvailable
    THEN [w EXCEPT !.pq.retries = 0, !.pq.pc = "inner"]
    ELSE [w EXCEPT !.isProcessingQueue = FALSE,
                   !.pq = [IdleFrame EXCEPT !.exit = "drained",
                                           !.running = w.pq.running - 1]]

\* processQueue, line 241: the loop condition and the probe of line 242.
PQOuterStep(w) ==
  IF Len(w.operationQueue) > 0 /\ w.pq.retries < maxRetries
    THEN IF ~isAvailable
           THEN [w EXCEPT !.pq.retries = @ + 1, !.pq.pc = "sleep"]
           ELSE [w EXCEPT !.pq.retries = 0, !.pq.pc = "inner"]
    ELSE LET exhausted == w.pq.retries >= maxRetries /\ Len(w.operationQueue) > 0
             w1 == IF exhausted
                     THEN emitUnavailable(w, "Max retries exceeded while processing queue")
                     ELSE w
         IN [w1 EXCEPT !.isProcessingQueue = FALSE,
                       !.pq = [IdleFrame EXCEPT !.exit = IF exhausted THEN "exhausted"
                                                                      ELSE "drained",
                                                !.running = w.pq.running - 1]]

PQOuter ==
  /\ pq.pc = "outer"
  /\ Commit(PQOuterStep(World))
  /\ UNCHANGED <<apiAvailable, backendRejects, discarded, file>>

\* The delay(retryInterval) timer fires and the loop continues.
PQWake ==
  /\ pq.pc = "sleep"
  /\ LoaderSuspended
  /\ pq' = [pq EXCEPT !.pc = "outer"]
  /\ UNCHANGED <<apiAvailable, backendRejects, operationQueue, isProcessingQueue,
                 backendLog, adapterEvents, requested, discarded, requeued,
                 loaderVars, readyVars, registryVars, applierVars, pluginVars>>

\* processQueue, line 252: the inner loop condition, then shift().
PQInnerStep(w) ==
  IF Len(w.operationQueue) > 0 /\ isAvailable
    THEN [w EXCEPT !.pq.op = Head(w.operationQueue),
                   !.operationQueue = Tail(@),
                   !.pq.pc = "exec"]
    ELSE [w EXCEPT !.pq.pc = "outer"]

PQInner ==
  /\ pq.pc = "inner"
  /\ Commit(PQInnerStep(World))
  /\ UNCHANGED <<apiAvailable, backendRejects, discarded, file>>

\* processQueue, line 254: executeOperation on the shifted operation.
PQExecStep(w) ==
  [executeOperation(w, w.pq.op) EXCEPT !.pq.op = NoOperation, !.pq.pc = "inner"]

PQExec ==
  /\ pq.pc = "exec"
  /\ Commit(PQExecStep(World))
  /\ UNCHANGED <<apiAvailable, backendRejects, discarded, file>>

\* The backend handle appears or disappears, possibly in the middle of a drain.
EnvBackend ==
  /\ LoaderSuspended
  /\ apiAvailable' = ~apiAvailable
  /\ UNCHANGED <<backendRejects, operationQueue, isProcessingQueue, pq, backendLog,
                 adapterEvents, requested, discarded, requeued, loaderVars,
                 readyVars, registryVars, applierVars, pluginVars>>

AdapterInit ==
  /\ apiAvailable \in BOOLEAN
  /\ backendRejects \in {{}, {"k"}}
  /\ file = NoFile
  /\ ServicesInit
  /\ operationQueue = <<>>
  /\ isProcessingQueue = FALSE
  /\ pq = IdleFrame
  /\ backendLog = <<>>
  /\ adapterEvents = <<>>
  /\ requested = <<>>
  /\ discarded = {}
  /\ requeued = FALSE

AdapterNext ==
  \/ Primitive
  \/ ClearQueue
  \/ PQOuter
  \/ PQWake
  \/ PQInner
  \/ PQExec
  \/ EnvBackend

SpecAdapter == AdapterInit /\ [][AdapterNext]_vars

(***************************************************************************)
(* VimAdapter.waitForReady and cleanup                                     *)
(***************************************************************************)
\* Math.ceil(this.readyTimeout / this.retryInterval)
maxAttempts == (readyTimeout + retryInterval - 1) \div retryInterval

\* A promise made by waitForReady(): its state, the attempts counter of its
\* checkReady closure, whether a setTimeout(checkReady) is pending, and the
\* notification emitted when it settled (0 for none); "cleaned" tells that
\* cleanup() was called while its timer was pending.
Promise(status, timer) ==
  [status |-> status, attempts |-> 0, timer |-> timer, event |-> 0,
   cleaned |-> FALSE]

emitReady(w) ==
  [w EXCEPT !.adapterEvents = Append(@, [type |-> "VIM_READY", reason |-> ""])]

\* The promises that have not settled when a call is made.
Pending(w) == {p \in 1..Len(w.promises) : w.promises[p].status = "pending"}

\* waitForReady(); "waits" keeps what the call returned and what it found.
waitForReady(w) ==
  LET new == Len(w.promises) + 1
      call(p) == [promise |-> p, available |-> isAvailable, pending |-> Pending(w)]
  IN IF isAvailable
       THEN LET w1 == emitReady(w)
            IN [w1 EXCEPT !.promises = Append(@, [Promise("resolved", FALSE) EXCEPT
                                                    !.event = Len(w1.adapterEvents)]),
                          !.waits = Append(@, call(new))]
     ELSE IF w.readyPromise # 0
       THEN [w EXCEPT !.waits = Append(@, call(w.readyPromise))]
     ELSE [w EXCEPT !.promises = Append(@, Promise("pending", TRUE)),
                    !.readyPromise = new,
                    !.waits = Append(@, call(new))]

\* Mutant: a poller that never gives up.
checkReadyForever(w, p) ==
  LET w1 == [w EXCEPT !.promises[p].attempts = @ + 1]
  IN IF isAvailable
       THEN LET w2 == emitReady(w1)
            IN [w2 EXCEPT !.readyPromise = 0,
                          !.promises[p].status = "resolved",
                          !.promises[p].timer = FALSE,
                          !.promises[p].event = Len(w2.adapterEvents)]
       ELSE w1

\* checkReady of promise p, run by its timer.
checkReady(w, p) ==
  LET w1 == [w EXCEPT !.promises[p].attempts = @ + 1]
  IN IF isAvailable
       THEN LET w2 == emitReady(w1)
            IN [w2 EXCEPT !.readyPromise = 0,
                          !.promises[p].status = "resolved",
                          !.promises[p].timer = FALSE,
                          !.promises[p].event = Len(w2.adapterEvents)]
     ELSE IF w1.promises[p].attempts >= maxAttempts
       THEN LET w2 == emitUnavailable(w1, "Timeout waiting for Vim API")
            IN [w2 EXCEPT !.readyPromise = 0,
                          !.promises[p].status = "rejected",
                          !.promises[p].timer = FALSE,
                          !.promises[p].event = Len(w2.adapterEvents)]
     ELSE w1                                  \* setTimeout(checkReady, retryInterval)

WaitForReady ==
  /\ CallerMayRun
  /\ Len(waits) < MaxWaits
  /\ Commit(waitForReady(World))
  /\ UNCHANGED <<apiAvailable, backendRejects, discarded, file>>

CheckReady ==
  /\ CallerMayRun
  /\ \E p \in 1..Len(promises) :
       /\ promises[p].timer
       /\ Commit(checkReady(World, p))
  /\ UNCHANGED <<apiAvailable, backendRejects, discarded, file>>

\* cleanup(): clearQueue(), then the promise and its resolver are forgotten.
Cleanup ==
  /\ CallerMayRun
  /\ clearQueue
  /\ readyPromise' = 0
  /\ promises' = [p \in 1..Len(promises) |->
                   [promises[p] EXCEPT !.cleaned = @ \/ promises[p].timer]]
  /\ UNCHANGED <<apiAvailable, backendRejects, isProcessingQueue, pq, backendLog,
                 adapterEvents, requested, requeued, loaderVars, waits,
                 registryVars, applierVars, pluginVars>>

ReadyNext ==
  \/ WaitForReady
  \/ CheckReady
  \/ Cleanup
  \/ EnvBackend

SpecReady == AdapterInit /\ [][ReadyNext]_vars
(***************************************************************************)
(* EventBus, MappingStore                                                  *)
(***************************************************************************)
\* emit(type, payload); "gen" tags the event with the call it was emitted in.
\* A handler's exception never leaves emit.
emit(w, type, payload) ==
  [w EXCEPT !.events = Append(@, [type |-> type, gen |-> w.ld.gen,
                                  payload |-> payload])]

\* The KeyMapping objects the store holds, in insertion order.
getAll(w) == [i \in 1..Len(w.mappings) |-> w.mappings[i].ref]

\* Mutant: a running counter of the mappings created.
countCreated(w) == w.mappingIdCounter

count(w) == Len(w.mappings)

MappingStore_add(w, ref) ==
  emit([w EXCEPT !.mappings = MapSet(@, [key |-> w.objects[ref].id, ref |-> ref])],
       "MAPPING_ADDED", [mapping |-> ref])

\* The MAPPING_REMOVED notifications of removeBySource, one per removed mapping.
RECURSIVE emitRemoved(_, _)
emitRemoved(w, toRemove) ==
  IF toRemove = <<>> THEN w
  ELSE emitRemoved(emit(w, "MAPPING_REMOVED", [mapping |-> toRemove[1].ref]),
                   Tail(toRemove))

\* Mutant: removeBySource without the mode filter.
removeBySourceAnyMode(w, source, mode) ==
  LET matches(e) == w.objects[e.ref].source = source
  IN emitRemoved([w EXCEPT !.mappings = SelectSeq(@, LAMBDA e : ~matches(e))],
                 SelectSeq(w.mappings, matches))

\* removeBySource(source, mode); mode "undefined" matches every mode.
removeBySource(w, source, mode) ==
  LET matches(e) == /\ w.objects[e.ref].source = source
                    /\ (mode = "undefined" \/ w.objects[e.ref].mode = mode)
      toRemove == SelectSeq(w.mappings, matches)
      kept == SelectSeq(w.mappings, LAMBDA e : ~matches(e))
  IN emitRemoved([w EXCEPT !.mappings = kept], toRemove)

MappingStore_clear(w) ==
  emit([w EXCEPT !.mappings = <<>>], "MAPPINGS_CLEARED", [count |-> Len(w.mappings)])

(***************************************************************************)
(* MappingHandler, ObmapHandler, ExmapHandler, LetHandler                  *)
(***************************************************************************)
getModeFromCommandType(type) ==
  IF type \in {"nmap", "nnoremap"} THEN "normal"
  ELSE IF type \in {"imap", "inoremap"} THEN "insert"
  ELSE IF type \in {"vmap", "vnoremap"} THEN "visual"
  ELSE "all"

getModeFromUnmapType(type) ==
  IF type = "nunmap" THEN "normal"
  ELSE IF type = "iunmap" THEN "insert"
  ELSE IF type = "vunmap" THEN "visual"
  ELSE "all"

isRecursiveMapping(type) == type \notin NON_RECURSIVE_COMMAND_TYPES

\* keys.replace(/<leader>/gi, this.leaderKey)
parseKeySequence(w, keys) == replaceAll(keys, "<leader>", w.leaderKey, TRUE)

\* handleMapping; "now" is what Date.now() returns.  The id is the number n
\* of "mapping_<n>"; "gen" tags the mapping with the call that created it.
handleMapping(w, command, now) ==
  LET from == IF Len(command.args) > 0 THEN command.args[1] ELSE ""
      to == IF Len(command.args) > 0 THEN join(Tail(command.args), " ") ELSE ""
  IN IF from = "" \/ to = ""
       THEN w                                \* warn: invalid mapping
       ELSE LET mapping == [id |-> w.mappingIdCounter + 1,
                            source |-> parseKeySequence(w, from),
                            target |-> parseKeySequence(w, to),
                            mode |-> getModeFromCommandType(command.type),
                            recursive |-> isRecursiveMapping(command.type),
                            lineNumber |-> command.lineNumber,
                            createdAt |-> now,
                            status |-> "pending",
                            appliedAt |-> 0,     \* undefined
                            gen |-> w.ld.gen]
                w1 == [w EXCEPT !.mappingIdCounter = @ + 1,
                                !.objects = Append(@, mapping),
                                !.clock = now]
            IN MappingStore_add(w1, Len(w1.objects))

handleUnmap(w, command) ==
  IF Len(command.args) = 0 \/ command.args[1] = ""
    THEN w                                   \* warn: unmap requires a key
    ELSE LET mode == getModeFromUnmapType(command.type)
         IN removeBySource(w, parseKeySequence(w, command.args[1]),
                           IF mode = "all" THEN "undefined" ELSE mode)

MappingHandler_handle(w, command, now) ==
  IF command.type \in UNMAP_COMMAND_TYPES
    THEN handleUnmap(w, command)
    ELSE handleMapping(w, command, now)

setLeaderKey(w, key) == [w EXCEPT !.leaderKey = key]

ObmapHandler_getModeFromCommandType(type) ==
  IF type = "nobmap" THEN "normal"
  ELSE IF type = "iobmap" THEN "insert"
  ELSE IF type = "vobmap" THEN "visual"
  ELSE "all"

ObmapHandler_handle(w, command) ==
  IF Len(command.args) < 2
    THEN w                                   \* warn: obmap requires key and command ID
    ELSE [w EXCEPT !.obmapDefinitions =
            Append(@, [key |-> command.args[1], commandId |-> command.args[2],
                       mode |-> ObmapHandler_getModeFromCommandType(command.type),
                       lineNumber |-> command.lineNumber, gen |-> w.ld.gen])]

ObmapHandler_cleanup(w) == [w EXCEPT !.obmapDefinitions = <<>>]

handleExmap(w, command) ==
  IF Len(command.args) < 3
    THEN w                                   \* warn: invalid exmap syntax
  ELSE IF toLowerCase(command.args[2]) # "obcommand"
    THEN w                                   \* warn: unknown exmap directive
  ELSE [w EXCEPT !.exmapDefinitions =
          MapSet(@, [key |-> command.args[1], name |-> command.args[1],
                     commandId |-> command.args[3],
                     lineNumber |-> command.lineNumber, gen |-> w.ld.gen])]

\* handleObcommand only validates the command id.
ExmapHandler_handle(w, command) ==
  IF command.type = "exmap" THEN handleExmap(w, command) ELSE w

ExmapHandler_cleanup(w) == [w EXCEPT !.exmapDefinitions = <<>>]

\* parseValue: surrounding quotes removed, then the special key notations
\* <Space>, <CR> and <Tab> (of the ten in the table) replaced.
parseValue(value) ==
  LET t == trim(value)
      unquoted == IF \/ (startsWith(t, "\"") /\ endsWith(t, "\""))
                     \/ (startsWith(t, "'") /\ endsWith(t, "'"))
                    THEN SubSeq(t, 2, Len(t) - 1)
                    ELSE t
  IN replaceAll(replaceAll(replaceAll(unquoted, "<Space>", " ", TRUE),
                           "<CR>", "\n", TRUE),
                "<Tab>", "\t", TRUE)

\* LetHandler.handle: the four accepted spellings of an assignment; the
\* leader key is passed on through onLeaderKeyChange.
LetHandler_handle(w, command) ==
  LET args == command.args
      n == Len(args)
      a == IF n >= 3 /\ args[2] = "="
             THEN [ok |-> TRUE, varName |-> args[1],
                   value |-> join(SubSeq(args, 3, n), " ")]
           ELSE IF n = 1 /\ includes(args[1], "=")
             THEN LET parts == split(args[1], "=")
                  IN [ok |-> TRUE, varName |-> parts[1],
                      value |-> join(Tail(parts), "=")]
           ELSE IF n >= 2 /\ endsWith(args[1], "=")
             THEN [ok |-> TRUE, varName |-> SubSeq(args[1], 1, Len(args[1]) - 1),
                   value |-> join(Tail(args), " ")]
           ELSE IF n >= 2 /\ startsWith(args[2], "=")
             THEN [ok |-> TRUE, varName |-> args[1],
                   value |-> Tail(args[2]) \o
                             (IF n > 2 THEN " " \o join(SubSeq(args, 3, n), " ")
                                       ELSE "")]
           ELSE [ok |-> FALSE, varName |-> "", value |-> ""]
  IN IF n = 0 \/ ~a.ok
       THEN w                                \* warn: invalid let syntax
     ELSE IF a.varName \in {"mapleader", "g:mapleader"}
       THEN setLeaderKey(w, parseValue(a.value))
     ELSE w

(***************************************************************************)
(* CommandRegistry                                                         *)
(***************************************************************************)
\* route(command): the first registered handler whose canHandle accepts the
\* command handles it; without one a warning is logged.
route(w, command, now) ==
  IF command.type \in MAPPING_COMMAND_TYPES THEN MappingHandler_handle(w, command, now)
  ELSE IF command.type \in OBMAP_COMMAND_TYPES THEN ObmapHandler_handle(w, command)
  ELSE IF command.type \in EXMAP_COMMAND_TYPES THEN ExmapHandler_handle(w, command)
  ELSE IF command.type \in LET_COMMAND_TYPES THEN LetHandler_handle(w, command)
  ELSE w

(***************************************************************************)
(* CommandRegistry with any handlers: register, unregister, route, the     *)
(* legacy execute, cleanup.  A handler is a name; what its canHandle       *)
(* answers and whether its handle or cleanup throws is the caller's input. *)
(***************************************************************************)
Handlers == {"h1", "h2"}
LegacyHandlers == {"l1"}
RegistryTypes == {"map", "nmap"}

\* handler.supportedTypes
supportedTypes(h) == IF h = "h1" THEN <<"map", "nmap">> ELSE <<"map">>

\* The Error object a handler throws.
Error(h) == [by |-> h]
NoError == [by |-> ""]

\* Mutant: the last handler that accepts the command.
findLast(list, accepts) ==
  IF \E i \in 1..Len(list) : list[i] \in accepts
    THEN list[CHOOSE i \in 1..Len(list) :
                /\ list[i] \in accepts
                /\ \A j \in (i + 1)..Len(list) : list[j] \notin accepts]
    ELSE ""

\* handlers.find((h) => h.canHandle(command)); "" for undefined.
find(list, accepts) ==
  IF \E i \in 1..Len(list) : list[i] \in accepts
    THEN list[CHOOSE i \in 1..Len(list) :
                /\ list[i] \in accepts
                /\ \A j \in 1..(i - 1) : list[j] \notin accepts]
    ELSE ""

\* indexOf(handler), then splice(index, 1) if found.
spliceFirst(list, h) ==
  IF \E i \in 1..Len(list) : list[i] = h
    THEN LET index == CHOOSE i \in 1..Len(list) :
                        list[i] = h /\ \A j \in 1..(i - 1) : list[j] # h
         IN SubSeq(list, 1, index - 1) \o SubSeq(list, index + 1, Len(list))
    ELSE list

\* What a call on the registry did: the handler methods it invoked, in order,
\* the error a handler threw, and how the call ended.
RegistryCall(w, api, handler, type, accepts) ==
  [api |-> api, handler |-> handler, type |-> type, accepts |-> accepts,
   candidates |-> IF type = "" THEN <<>> ELSE w.handlers[type],
   registeredBefore |-> w.registered,
   eventsBefore |-> Len(w.events),
   invoked |-> <<>>, thrown |-> NoError, outcome |-> "returned", error |-> NoError]

emitError(w, error, context) ==
  emit(w, "ERROR_OCCURRED", [error |-> error, context |-> context, severity |-> "error"])

register(w, h) ==
  [w EXCEPT !.registryCall = RegistryCall(w, "register", h, "", {}),
            !.handlers = [type \in CommandType |->
                            IF type \in Range(supportedTypes(h))
                              THEN Append(w.handlers[type], h)
                              ELSE w.handlers[type]],
            !.allHandlers = IF h \in Range(@) THEN @ ELSE Append(@, h),
            !.registered = @ \cup {h}]

unregister(w, h) ==
  [w EXCEPT !.registryCall = RegistryCall(w, "unregister", h, "", {}),
            !.handlers = [type \in CommandType |->
                            IF type \in Range(supportedTypes(h))
                              THEN spliceFirst(w.handlers[type], h)
                              ELSE w.handlers[type]],
            !.allHandlers = spliceFirst(@, h),
            !.registered = @ \ {h}]

registerLegacy(w, type, h) ==
  [w EXCEPT !.registryCall = RegistryCall(w, "registerLegacy", h, type, {}),
            !.legacyHandlers[type] = Append(@, h),
            !.allLegacyHandlers = IF h \in Range(@) THEN @ ELSE Append(@, h),
            !.registered = @ \cup {h}]

hasHandler(w, type) == Len(w.handlers[type]) > 0 \/ Len(w.legacyHandlers[type]) > 0

\* handler.handle(command): the invocation, and the exception if it throws.
invokeHandle(w, method, h, throws) ==
  [w EXCEPT !.registryCall.invoked = Append(@, [method |-> method, handler |-> h]),
            !.registryCall.thrown = IF throws THEN Error(h) ELSE NoError]

\* Mutant: route without its try blocks.
routeRethrows(w, type, accepts, throws) ==
  LET w0 == [w EXCEPT !.registryCall = RegistryCall(w, "route", "", type, accepts)]
      handler == find(w.handlers[type], accepts)
      w1 == invokeHandle(w0, "handle", handler, throws)
  IN IF handler # ""
       THEN IF throws
              THEN [w1 EXCEPT !.registryCall.outcome = "rejected",
                              !.registryCall.error = Error(handler)]
              ELSE w1
       ELSE w0

\* route(command): the command's type, what each canHandle answers and
\* whether the selected handle throws are given.
CommandRegistry_route(w, type, accepts, throws) ==
  LET w0 == [w EXCEPT !.registryCall = RegistryCall(w, "route", "", type, accepts)]
      handler == find(w.handlers[type], accepts)
      legacyHandler == find(w.legacyHandlers[type], accepts)
  IN IF handler # ""
       THEN LET w1 == invokeHandle(w0, "handle", handler, throws)
            IN IF throws
                 THEN emitError(w1, Error(handler), "CommandRegistry.route: " \o type)
                 ELSE w1
     ELSE IF legacyHandler # "" /\ w.legacyContext
       THEN LET w1 == invokeHandle(w0, "legacyHandle", legacyHandler, throws)
            IN IF throws
                 THEN emitError(w1, Error(legacyHandler),
                                "CommandRegistry.route (legacy): " \o type)
                 ELSE w1
     ELSE w0                                  \* warn: no handler found

\* Mutant: execute isolates the handler's error as route does.
executeIsolated(w, type, accepts, throws) ==
  [CommandRegistry_route([w EXCEPT !.legacyContext = TRUE], type, accepts, throws)
     EXCEPT !.registryCall.api = "execute"]

\* execute(command, context), the legacy entry point.
execute(w, type, accepts, throws) ==
  LET w0 == [w EXCEPT !.registryCall = RegistryCall(w, "execute", "", type, accepts),
                      !.legacyContext = TRUE]
      handler == find(w.handlers[type], accepts)
      legacyHandler == find(w.legacyHandlers[type], accepts)
      rethrow(v, h) == IF throws
                         THEN [v EXCEPT !.registryCall.outcome = "rejected",
                                        !.registryCall.error = v.registryCall.thrown]
                         ELSE v
  IN IF handler # ""
       THEN rethrow(invokeHandle(w0, "handle", handler, throws), handler)
     ELSE IF legacyHandler = ""
       THEN w0                                \* warn: no handler found
     ELSE rethrow(invokeHandle(w0, "legacyHandle", legacyHandler, throws), legacyHandler)

\* The loop of cleanup() over a list of handlers: each cleanup in its own try.
RECURSIVE cleanupEach(_, _, _, _)
cleanupEach(w, list, throwers, context) ==
  IF list = <<>> THEN w
  ELSE LET w1 == [w EXCEPT !.registryCall.invoked =
                     Append(@, [method |-> "cleanup", handler |-> list[1]])]
           w2 == IF list[1] \in throwers
                   THEN emitError(w1, Error(list[1]), context)
                   ELSE w1
       IN cleanupEach(w2, Tail(list), throwers, context)

\* Mutant: the first cleanup that throws ends the loop.
cleanupUntilThrow(w, throwers) ==
  LET w0 == [w EXCEPT !.registryCall = RegistryCall(w, "cleanup", "", "", throwers)]
      all == w.allHandlers \o w.allLegacyHandlers
      stop == IF \E i \in 1..Len(all) : all[i] \in throwers
                THEN CHOOSE i \in 1..Len(all) :
                       all[i] \in throwers /\ \A j \in 1..(i - 1) : all[j] \notin throwers
                ELSE Len(all)
      w1 == cleanupEach(w0, SubSeq(all, 1, stop), {}, "CommandRegistry.cleanup")
  IN [w1 EXCEPT !.handlers = [type \in CommandType |-> <<>>],
                !.legacyHandlers = [type \in CommandType |-> <<>>],
                !.allHandlers = <<>>,
                !.allLegacyHandlers = <<>>,
                !.registered = {}]

\* cleanup(): which handlers' cleanup throws is given.
cleanup(w, throwers) ==
  LET w0 == [w EXCEPT !.registryCall = RegistryCall(w, "cleanup", "", "", throwers)]
      w1 == cleanupEach(w0, w.allHandlers, throwers, "CommandRegistry.cleanup")
      w2 == cleanupEach(w1, w.allLegacyHandlers, throwers,
                        "CommandRegistry.cleanup (legacy)")
  IN [w2 EXCEPT !.handlers = [type \in CommandType |-> <<>>],
                !.legacyHandlers = [type \in CommandType |-> <<>>],
                !.allHandlers = <<>>,
                !.allLegacyHandlers = <<>>,
                !.registered = {}]

Register ==
  /\ Len(events) < MaxErrors
  /\ \E h \in Handlers :
       /\ \A i \in 1..Len(supportedTypes(h)) :
            Len(handlers[supportedTypes(h)[i]]) < MaxListed
       /\ Commit(register(World, h))
  /\ UNCHANGED <<apiAvailable, backendRejects, discarded, file>>

RegisterLegacy ==
  /\ Len(events) < MaxErrors
  /\ \E h \in LegacyHandlers, type \in RegistryTypes :
       /\ Len(legacyHandlers[type]) < MaxLegacy
       /\ Commit(registerLegacy(World, type, h))
  /\ UNCHANGED <<apiAvailable, backendRejects, discarded, file>>

Unregister ==
  /\ Len(events) < MaxErrors
  /\ \E h \in Handlers : Commit(unregister(World, h))
  /\ UNCHANGED <<apiAvailable, backendRejects, discarded, file>>

Route ==
  /\ Len(events) < MaxErrors
  /\ \E type \in RegistryTypes, accepts \in SUBSET (Handlers \cup LegacyHandlers),
        throws \in BOOLEAN :
       Commit(CommandRegistry_route(World, type, accepts, throws))
  /\ UNCHANGED <<apiAvailable, backendRejects, discarded, file>>

Execute ==
  /\ Len(events) < MaxErrors
  /\ \E type \in RegistryTypes, accepts \in SUBSET (Handlers \cup LegacyHandlers),
        throws \in BOOLEAN :
       Commit(execute(World, type, accepts, throws))
  /\ UNCHANGED <<apiAvailable, backendRejects, discarded, file>>

RegistryCleanup ==
  /\ Len(events) < MaxErrors
  /\ \E throwers \in SUBSET (Handlers \cup LegacyHandlers) :
       Commit(cleanup(World, throwers))
  /\ UNCHANGED <<apiAvailable, backendRejects, discarded, file>>

RegistryInit ==
  /\ apiAvailable = TRUE
  /\ backendRejects = {}
  /\ operationQueue = <<>>
  /\ isProcessingQueue = FALSE
  /\ pq = IdleFrame
  /\ backendLog = <<>>
  /\ adapterEvents = <<>>
  /\ requested = <<>>
  /\ discarded = {}
  /\ requeued = FALSE
  /\ file = NoFile
  /\ ServicesInit

RegistryNext ==
  \/ Register
  \/ RegisterLegacy
  \/ Unregister
  \/ Route
  \/ Execute
  \/ RegistryCleanup

SpecRegistry == RegistryInit /\ [][RegistryNext]_vars

(***************************************************************************)
(* MappingApplier                                                          *)
(***************************************************************************)
\* modeToString of the Adapter; "undefined" stands for undefined (all modes).
modeToString(mode) ==
  IF mode \in {"normal", "insert", "visual"} THEN mode ELSE "undefined"

getMappingKey(source, mode) == mode \o ":" \o source

\* Mutant: an existing mapping of the pair is overwritten without notification.
checkConflictSilent(w, ref) == w

checkConflict(w, ref) ==
  LET mapping == w.objects[ref]
      key == getMappingKey(mapping.source, mapping.mode)
  IN IF /\ MapHas(w.appliedMappings, key)
        /\ w.objects[MapGet(w.appliedMappings, key).ref].id # mapping.id
       THEN emit(w, "MAPPING_CONFLICT",
                 [existingMapping |-> MapGet(w.appliedMappings, key).ref,
                  newMapping |-> ref, resolution |-> "override"])
       ELSE w

\* Mutant: apply over an Adapter that lets the backend's exception through.
applyUnguarded(w, ref) ==
  LET mapping == w.objects[ref]
      key == getMappingKey(mapping.source, mapping.mode)
      w1 == checkConflict(w, ref)
      w2 == primitiveUnguarded(w1, IF mapping.recursive THEN "map" ELSE "noremap",
                               <<mapping.source, mapping.target, modeToString(mapping.mode)>>)
  IN IF w2.thrown
       THEN [w2 EXCEPT !.objects[ref].status = "failed"]
       ELSE emit([w2 EXCEPT !.appliedMappings = MapSet(@, [key |-> key, ref |-> ref]),
                            !.objects[ref].status = "applied",
                            !.objects[ref].appliedAt = w2.clock],
                 "MAPPING_APPLIED", [mapping |-> ref])

\* apply(mapping) once the Adapter's map/noremap call has returned or thrown:
\* a failure of the call is re-raised (thrown stays).
applyAfter(w2, ref) ==
  LET mapping == w2.objects[ref]
      key == getMappingKey(mapping.source, mapping.mode)
  IN IF w2.thrown
       THEN [w2 EXCEPT !.objects[ref].status = "failed"]
       ELSE emit([w2 EXCEPT !.appliedMappings = MapSet(@, [key |-> key, ref |-> ref]),
                            !.objects[ref].status = "applied",
                            !.objects[ref].appliedAt = w2.clock],
                 "MAPPING_APPLIED", [mapping |-> ref])

\* apply(mapping) over the VimAdapter.
apply(w, ref) ==
  LET mapping == w.objects[ref]
  IN applyAfter(primitive(checkConflict(w, ref),
                          IF mapping.recursive THEN "map" ELSE "noremap",
                          <<mapping.source, mapping.target, modeToString(mapping.mode)>>),
                ref)

\* Mutant: every mapping is put in front of those sorted so far.
insertFirst(w, sorted, ref) == <<ref>> \o sorted

\* [...mappings].sort((a, b) => a.createdAt - b.createdAt): a stable sort.
RECURSIVE insertByCreatedAt(_, _, _)
insertByCreatedAt(w, sorted, ref) ==
  IF sorted = <<>> THEN <<ref>>
  ELSE IF w.objects[sorted[Len(sorted)]].createdAt <= w.objects[ref].createdAt
    THEN Append(sorted, ref)
  ELSE Append(insertByCreatedAt(w, SubSeq(sorted, 1, Len(sorted) - 1), ref),
              sorted[Len(sorted)])

\* Mutant: the mappings in reverse insertion order.
sortReversed(w, refs) == [i \in 1..Len(refs) |-> refs[Len(refs) + 1 - i]]

RECURSIVE sortByCreatedAt(_, _)
sortByCreatedAt(w, refs) ==
  IF refs = <<>> THEN <<>>
  ELSE insertByCreatedAt(w, sortByCreatedAt(w, SubSeq(refs, 1, Len(refs) - 1)),
                         refs[Len(refs)])

\* unapply(mapping): the tracking entry goes in both branches; a failure of
\* the Adapter call is re-raised before the status is updated.
unapplyAfter(w1, ref) ==
  LET mapping == w1.objects[ref]
      key == getMappingKey(mapping.source, mapping.mode)
  IN IF w1.thrown
       THEN [w1 EXCEPT !.appliedMappings = MapDelete(@, key)]
       ELSE [w1 EXCEPT !.appliedMappings = MapDelete(@, key),
                       !.objects[ref].status = "removed"]

\* unapply(mapping) over the VimAdapter.
unapply(w, ref) ==
  LET mapping == w.objects[ref]
  IN unapplyAfter(primitive(w, "unmap", <<mapping.source, modeToString(mapping.mode)>>),
                  ref)

RECURSIVE unapplyEach(_, _)
unapplyEach(w, refs) ==
  IF refs = <<>> \/ w.thrown THEN w
  ELSE unapplyEach(unapply(w, refs[1]), Tail(refs))

unapplyAll(w) ==
  LET w1 == unapplyEach(w, [i \in 1..Len(w.appliedMappings) |-> w.appliedMappings[i].ref])
  IN IF w1.thrown THEN w1 ELSE [w1 EXCEPT !.appliedMappings = <<>>]

(***************************************************************************)
(* ErrorHandler, VimrcLoader                                               *)
(***************************************************************************)
\* handle(error, context) records the error and emits ERROR_OCCURRED.
ErrorHandler_handle(w, message, context) ==
  emit(w, "ERROR_OCCURRED", [message |-> message, context |-> context])

VimrcPath == ".obsidian.vimrc"

\* An exception was raised in a direct backend call of the call in progress.
BackendRaised(w) ==
  \E i \in (w.ld.logStart + 1)..Len(w.backendLog) :
    w.backendLog[i].threw /\ w.backendLog[i].via = "direct"

\* The call in progress ends: it returns its LoadResult or rejects.
finish(w, outcome) ==
  [w EXCEPT !.results = Append(@, [call |-> w.ld.call, gen |-> w.ld.gen,
                                   outcome |-> outcome, result |-> w.ld.result,
                                   content |-> w.ld.content,
                                   caught |-> w.ld.caught,
                                   fileRaised |-> w.ld.fileRaised,
                                   backendRaised |-> BackendRaised(w),
                                   probe |-> w.ld.probe,
                                   stored |-> Len(w.mappings)]),
            !.ld = IdleLoad,
            !.thrown = FALSE]

\* The entry of load(): the empty result, then the first await.
load(w, call) ==
  [w EXCEPT !.ld = [IdleLoad EXCEPT !.pc = "detect", !.call = call,
                                    !.gen = Len(w.results) + 1,
                                    !.logStart = Len(w.backendLog)]]

\* The catch block of load(), then the return.
loadCatch(w, message) ==
  LET w1 == [w EXCEPT !.ld.result.errors =
                        Append(@, [lineNumber |-> 0, message |-> message, raw |-> ""]),
                      !.ld.caught = TRUE,
                      !.thrown = FALSE]
      w2 == ErrorHandler_handle(w1, message, "VimrcLoader.load")
  IN finish(emit(w2, "VIMRC_ERROR", [path |-> w2.ld.result.path]), "returned")

\* Mutant: a vault without a vimrc file is reported as a failure.
detectMissingFails(w, probe) ==
  IF probe = "found"
    THEN emit([w EXCEPT !.ld.result.path = VimrcPath, !.ld.pc = "read", !.ld.probe = probe],
              "VIMRC_LOADING", [path |-> VimrcPath])
    ELSE loadCatch([w EXCEPT !.ld.fileRaised = (probe = "throws"), !.ld.probe = probe],
                   "exists failed")

\* detectVimrcFile with the default settings, then load() up to readVimrcFile.
detectVimrcFile(w, probe) ==
  IF probe = "throws"
    THEN loadCatch([w EXCEPT !.ld.fileRaised = TRUE, !.ld.probe = probe], "exists failed")
  ELSE IF probe = "missing"
    THEN finish([w EXCEPT !.ld.result.success = TRUE, !.ld.probe = probe], "returned")
  ELSE emit([w EXCEPT !.ld.result.path = VimrcPath, !.ld.pc = "read", !.ld.probe = probe],
            "VIMRC_LOADING", [path |-> VimrcPath])

\* readVimrcFile, then load() up to parse: a failed read is reported to the
\* ErrorHandler and read as null.
readVimrcFile(w, read, content) ==
  LET failed(v) == finish([v EXCEPT !.ld.result.errors =
                             Append(@, [lineNumber |-> 0,
                                        message |-> "Failed to read file: " \o VimrcPath,
                                        raw |-> ""])], "returned")
  IN IF read = "throws"
       THEN failed(ErrorHandler_handle([w EXCEPT !.ld.fileRaised = TRUE], "read failed",
                                       "VimrcLoader.readVimrcFile: " \o VimrcPath))
     ELSE IF read = "missing" THEN failed(w)
     ELSE [w EXCEPT !.ld.content = content, !.ld.pc = "parse"]

\* Mutant: the parser's warnings are not copied into the result.
parseContentNoWarnings(w) ==
  LET parseResult == parse(w.variables, w.ld.content, w.ld.gen)
  IN [w EXCEPT !.variables = parseResult.variables,
               !.ld.commands = parseResult.commands,
               !.ld.result.errors = parseResult.errors,
               !.ld.idx = 1,
               !.ld.pc = "exec"]

\* parser.parse(content) and the copy of its errors and warnings.
parseContent(w) ==
  LET parseResult == parse(w.variables, w.ld.content, w.ld.gen)
  IN [w EXCEPT !.variables = parseResult.variables,
               !.ld.commands = parseResult.commands,
               !.ld.result.errors = parseResult.errors,
               !.ld.result.warnings = parseResult.warnings,
               !.ld.idx = 1,
               !.ld.pc = "exec"]

\* The call of commandRegistry.route(command) begins.
routeBegin(w, command) ==
  [w EXCEPT !.ld.routed = Append(@, [lineNumber |-> command.lineNumber,
                                     type |-> command.type,
                                     index |-> w.ld.idx,
                                     inFlight |-> w.ld.inFlight]),
            !.ld.inFlight = @ + 1]

\* Mutant: route(command) is called without await.
executeCommandNoAwait(w, now) ==
  LET command == w.ld.commands[w.ld.idx]
      w1 == IF command.type \in {"unknown", "let", "comment"}
              THEN w
              ELSE route(routeBegin(w, command), command, now)
  IN [w1 EXCEPT !.ld.idx = @ + 1]

\* Mutant: let commands are routed as well.
executeCommandWithLet(w, now) ==
  LET command == w.ld.commands[w.ld.idx]
      w1 == IF command.type \in {"unknown", "comment"}
              THEN w
              ELSE [route(routeBegin(w, command), command, now)
                      EXCEPT !.ld.inFlight = @ - 1]
  IN [w1 EXCEPT !.ld.idx = @ + 1]

\* One turn of the loop of executeCommands: a command that is not skipped is
\* routed, and the loop goes on when route has settled.
executeCommand(w, now) ==
  LET command == w.ld.commands[w.ld.idx]
      w1 == IF command.type \in {"unknown", "let", "comment"}
              THEN w
              ELSE [route(routeBegin(w, command), command, now)
                      EXCEPT !.ld.inFlight = @ - 1]
  IN [w1 EXCEPT !.ld.idx = @ + 1]

\* applyAll() up to its loop.
applyAll(w) ==
  [w EXCEPT !.ld.sortedMappings = sortByCreatedAt(w, getAll(w)),
            !.ld.idx = 1,
            !.ld.pc = "apply"]

\* One turn of the loop of applyAll; a re-raised failure ends in load's catch.
applyNext(w) ==
  LET w1 == apply(w, w.ld.sortedMappings[w.ld.idx])
  IN IF w1.thrown THEN loadCatch(w1, "apply failed")
     ELSE [w1 EXCEPT !.ld.idx = @ + 1]

\* mapCommand(key, 'action', actionName, undefined, {context}) per context.
RECURSIVE mapCommands(_, _, _, _)
mapCommands(w, key, actionName, contexts) ==
  IF contexts = <<>> \/ w.thrown THEN w
  ELSE mapCommands(primitive(w, "mapCommand",
                             <<key, "action", actionName, "undefined", contexts[1]>>),
                   key, actionName, Tail(contexts))

applyObmapToVim(w, obmap, index) ==
  LET actionName == "obmap_" \o ToString(index)
      contexts == IF obmap.mode = "insert" THEN <<"insert">>
                  ELSE IF obmap.mode = "all" THEN <<"normal", "visual", "insert">>
                  ELSE <<obmap.mode>>
      modes == IF obmap.mode \in {"insert", "all"} THEN contexts
               ELSE IF obmap.mode = "normal" THEN <<"normal">>
               ELSE <<"visual">>
      w1 == primitive(w, "defineAction", <<actionName, obmap.commandId>>)
      w2 == IF w1.thrown THEN w1 ELSE mapCommands(w1, obmap.key, actionName, contexts)
  IN IF w2.thrown
       THEN [w2 EXCEPT !.thrown = FALSE]       \* catch { log.error }
       ELSE [w2 EXCEPT !.appliedObmaps =
               @ \o [i \in 1..Len(modes) |-> [key |-> obmap.key, mode |-> modes[i]]]]

applyExmapToVim(w, exmap) ==
  LET w1 == primitive(w, "defineEx", <<exmap.name, exmap.name, exmap.commandId>>)
  IN IF w1.thrown
       THEN [w1 EXCEPT !.thrown = FALSE]       \* catch { log.error }
       ELSE [w1 EXCEPT !.appliedExmaps = Append(@, exmap.name)]

RECURSIVE applyObmapsFrom(_, _, _)
applyObmapsFrom(w, obmaps, i) ==
  IF i > Len(obmaps) THEN w
  ELSE applyObmapsFrom(applyObmapToVim(w, obmaps[i], i - 1), obmaps, i + 1)

RECURSIVE applyExmapsFrom(_, _)
applyExmapsFrom(w, exmaps) ==
  IF exmaps = <<>> THEN w
  ELSE applyExmapsFrom(applyExmapToVim(w, exmaps[1]), Tail(exmaps))

applyAllToVim(w) ==
  applyExmapsFrom(applyObmapsFrom(w, w.obmapDefinitions, 1), w.exmapDefinitions)

\* The end of load()'s try block: applyAllToVim, the count, VIMRC_LOADED.
loadComplete(w) ==
  LET w1 == applyAllToVim(w)
      w2 == [w1 EXCEPT !.ld.result.mappingCount = count(w1),
                       !.ld.result.success = TRUE]
  IN finish(emit(w2, "VIMRC_LOADED", w2.ld.result), "returned")

RECURSIVE unmapEach(_, _)
unmapEach(w, obmaps) ==
  IF obmaps = <<>> \/ w.thrown THEN w
  ELSE unmapEach(primitive(w, "unmap", <<obmaps[1].key, modeToString(obmaps[1].mode)>>),
                 Tail(obmaps))

clearAppliedObmaps(w) ==
  LET w1 == unmapEach(w, w.appliedObmaps)
  IN IF w1.thrown THEN w1 ELSE [w1 EXCEPT !.appliedObmaps = <<>>]

RECURSIVE defineExEach(_, _)
defineExEach(w, names) ==
  IF names = <<>> \/ w.thrown THEN w
  ELSE defineExEach(primitive(w, "defineEx", <<names[1], names[1], "noop">>),
                    Tail(names))

clearAppliedExmaps(w) ==
  LET w1 == defineExEach(w, w.appliedExmaps)
  IN IF w1.thrown THEN w1 ELSE [w1 EXCEPT !.appliedExmaps = <<>>]

\* Mutant: the providers keep their definitions over a reload.
resetProvidersKeep(w) == w

resetProviders(w) == ExmapHandler_cleanup(ObmapHandler_cleanup(w))

\* reload(): the teardown, which no try block encloses, then load().
reload(w) ==
  LET w0 == load(w, "reload")
      w1 == unapplyAll(w0)
      w2 == IF w1.thrown THEN w1 ELSE MappingStore_clear(w1)
      w3 == IF w2.thrown THEN w2 ELSE clearAppliedObmaps(w2)
      w4 == IF w3.thrown THEN w3 ELSE clearAppliedExmaps(w3)
      w5 == IF w4.thrown THEN w4 ELSE resetProviders(w4)
  IN IF w5.thrown THEN finish(w5, "rejected") ELSE w5

(***************************************************************************)
(* The plugin: onLayoutReady calls load() once; the settings tab and the   *)
(* file watcher call reload() afterwards.  A call is made when the         *)
(* previous one has returned.  The synchronous stretch of load() after the *)
(* file has been read is a chain of steps during which neither a timer nor *)
(* the host runs.                                                          *)
(***************************************************************************)
\* The contents the vimrc file takes in this model.
TwoMapsOfX == "nobmap k cmd\nexmap w obcommand cmd\nnmap x y\nnmap x z"
LeaderAndVariable == "let mapleader = \",\"\nnmap <Leader>w y\nnmap <a> b\nlet a = \"\""
Contents == {TwoMapsOfX, LeaderAndVariable}

Files == {NoFile} \cup {[exists |-> TRUE, content |-> c] : c \in Contents}

\* What Date.now() may return to the handler of a mapping command.
DateNow(command) ==
  IF command.type \in MAPPING_COMMAND_TYPES \ UNMAP_COMMAND_TYPES /\ clock < MaxClock
    THEN {clock, clock + 1}
    ELSE {clock}

Load ==
  /\ ld.pc = "idle"
  /\ CallerMayRun
  /\ results = <<>>
  /\ Len(results) < MaxLoads
  /\ Commit(load(World, "load"))
  /\ UNCHANGED <<apiAvailable, backendRejects, discarded, file>>

Reload ==
  /\ ld.pc = "idle"
  /\ CallerMayRun
  /\ results # <<>>
  /\ Len(results) < MaxLoads
  /\ Commit(reload(World))
  /\ UNCHANGED <<apiAvailable, backendRejects, discarded, file>>

\* fileAdapter.exists settles: the file is there, is not, or the probe fails.
Detect ==
  /\ ld.pc = "detect"
  /\ CallerMayRun
  /\ \E probe \in {"found", "missing", "throws"} :
       /\ probe = "found" => file.exists
       /\ probe = "missing" => ~file.exists
       /\ Commit(detectVimrcFile(World, probe))
  /\ UNCHANGED <<apiAvailable, backendRejects, discarded, file>>

\* fileAdapter.exists and fileAdapter.read settle.
Read ==
  /\ ld.pc = "read"
  /\ CallerMayRun
  /\ \E read \in {"content", "missing", "throws"} :
       /\ read = "content" => file.exists
       /\ read = "missing" => ~file.exists
       /\ Commit(readVimrcFile(World, read, file.content))
  /\ UNCHANGED <<apiAvailable, backendRejects, discarded, file>>

Parse ==
  /\ ld.pc = "parse"
  /\ CallerMayRun
  /\ Commit(parseContent(World))
  /\ UNCHANGED <<apiAvailable, backendRejects, discarded, file>>

ExecuteCommand ==
  /\ ld.pc = "exec"
  /\ ld.idx <= Len(ld.commands)
  /\ CallerMayRun
  /\ \E now \in DateNow(ld.commands[ld.idx]) : Commit(executeCommand(World, now))
  /\ UNCHANGED <<apiAvailable, backendRejects, discarded, file>>

ApplyAll ==
  /\ ld.pc = "exec"
  /\ ld.idx > Len(ld.commands)
  /\ CallerMayRun
  /\ Commit(applyAll(World))
  /\ UNCHANGED <<apiAvailable, backendRejects, discarded, file>>

Apply ==
  /\ ld.pc = "apply"
  /\ ld.idx <= Len(ld.sortedMappings)
  /\ CallerMayRun
  /\ Commit(applyNext(World))
  /\ UNCHANGED <<apiAvailable, backendRejects, discarded, file>>

LoadComplete ==
  /\ ld.pc = "apply"
  /\ ld.idx > Len(ld.sortedMappings)
  /\ CallerMayRun
  /\ Commit(loadComplete(World))
  /\ UNCHANGED <<apiAvailable, backendRejects, discarded, file>>

\* The user, or a sync service, rewrites, creates or deletes the vimrc file
\* between two calls.
EnvFile ==
  /\ ld.pc = "idle"
  /\ CallerMayRun
  /\ \E f \in Files : f # file /\ file' = f
  /\ UNCHANGED <<adapterVars, variables, leaderKey, mappingIdCounter, objects,
                 mappings, appliedMappings, obmapDefinitions, exmapDefinitions,
                 appliedObmaps, appliedExmaps, clock, events, ld, results,
                 readyVars, registryVars, applierVars, pluginVars>>

\* The host creates or removes the backend handle between two calls.
HostBackend ==
  /\ ld.pc = "idle"
  /\ CallerMayRun
  /\ EnvBackend

LoaderInit ==
  /\ apiAvailable \in BOOLEAN
  /\ backendRejects \in {{}, {"x"}}
  /\ operationQueue = <<>>
  /\ isProcessingQueue = FALSE
  /\ pq = IdleFrame
  /\ backendLog = <<>>
  /\ adapterEvents = <<>>
  /\ requested = <<>>
  /\ discarded = {}
  /\ requeued = FALSE
  /\ file \in Files
  /\ ServicesInit

LoaderNext ==
  \/ Load
  \/ Reload
  \/ Detect
  \/ Read
  \/ Parse
  \/ ExecuteCommand
  \/ ApplyAll
  \/ Apply
  \/ LoadComplete
  \/ EnvFile
  \/ PQOuter
  \/ PQWake
  \/ PQInner
  \/ PQExec
  \/ HostBackend

SpecLoader == LoaderInit /\ [][LoaderNext]_vars

(***************************************************************************)
(* load() and reload() of a file of three mappings that stays as it is,    *)
(* over a backend that may reject the second of them.                      *)
(***************************************************************************)
ThreeMaps == "nmap a b\nnmap c d\nnmap e f"

ApplyInit ==
  /\ apiAvailable \in BOOLEAN
  /\ backendRejects \in {{}, {"c"}}
  /\ operationQueue = <<>>
  /\ isProcessingQueue = FALSE
  /\ pq = IdleFrame
  /\ backendLog = <<>>
  /\ adapterEvents = <<>>
  /\ requested = <<>>
  /\ discarded = {}
  /\ requeued = FALSE
  /\ file = [exists |-> TRUE, content |-> ThreeMaps]
  /\ ServicesInit

ApplyNext ==
  \/ Load
  \/ Reload
  \/ Detect
  \/ Read
  \/ Parse
  \/ ExecuteCommand
  \/ ApplyAll
  \/ Apply
  \/ LoadComplete
  \/ PQOuter
  \/ PQWake
  \/ PQInner
  \/ PQExec
  \/ HostBackend

SpecApply == ApplyInit /\ [][ApplyNext]_vars

(***************************************************************************)
(* load() and reload() of one of a few files that stays as it is, over a   *)
(* backend that accepts every binding.                                     *)
(***************************************************************************)
UnknownBetween == "nmap a b\nfoo bar\nnmap c d"
LeaderW == "let mapleader = \",\"\nnmap <leader>w :w<CR>"
LeaderCases == "let mapleader = \",\"\nnmap <Leader>w y\nnmap <LEADER>x z"
ScopedLeader == "let g:mapleader = \",\"\nnmap <leader>w y"
FixedContents == {UnknownBetween, LeaderW, LeaderCases, ScopedLeader}

FilesInit ==
  /\ apiAvailable \in BOOLEAN
  /\ backendRejects = {}
  /\ operationQueue = <<>>
  /\ isProcessingQueue = FALSE
  /\ pq = IdleFrame
  /\ backendLog = <<>>
  /\ adapterEvents = <<>>
  /\ requested = <<>>
  /\ discarded = {}
  /\ requeued = FALSE
  /\ file \in {[exists |-> TRUE, content |-> c] : c \in FixedContents}
  /\ ServicesInit

SpecFiles == FilesInit /\ [][ApplyNext]_vars

(***************************************************************************)
(* The MappingHandler, the MappingStore and the MappingApplier called      *)
(* directly, the Applier over any implementation of IVimAdapter.           *)
(***************************************************************************)
\* The commands handed to MappingHandler.handle.
MappingCommands ==
  {ParsedCommand("nmap", <<"a", "b">>, 1, "nmap a b"),
   ParsedCommand("nmap", <<"a", "c">>, 2, "nmap a c"),
   ParsedCommand("nunmap", <<"a">>, 3, "nunmap a")}

\* MappingHandler.cleanup()
MappingHandler_cleanup(w) == [w EXCEPT !.mappingIdCounter = 0]

\* this.vimAdapter.map / noremap / unmap of an IVimAdapter: the call returns,
\* or it throws.
vimAdapterCall(w, throws) == [w EXCEPT !.thrown = throws]

\* The call on the Applier has settled: what it was, and whether it re-raised.
applierReturn(w, api, ref) ==
  [w EXCEPT !.applierCall = [api |-> api, ref |-> ref, threw |-> w.thrown],
            !.thrown = FALSE]

HandleCommand ==
  /\ Len(objects) < MaxObjects
  /\ Len(events) < MaxStoreEvents
  /\ \E command \in MappingCommands :
       Commit(MappingHandler_handle(World, command, clock))
  /\ UNCHANGED <<apiAvailable, backendRejects, discarded, file>>

HandlerCleanup ==
  /\ mappingIdCounter > 0
  /\ Commit(MappingHandler_cleanup(World))
  /\ UNCHANGED <<apiAvailable, backendRejects, discarded, file>>

ApplyMapping ==
  /\ Len(events) < MaxStoreEvents
  /\ \E i \in 1..Len(mappings), throws \in BOOLEAN :
       LET ref == mappings[i].ref
       IN Commit(applierReturn(
                   applyAfter(vimAdapterCall(checkConflict(World, ref), throws), ref),
                   "apply", ref))
  /\ UNCHANGED <<apiAvailable, backendRejects, discarded, file>>

UnapplyMapping ==
  /\ \E ref \in 1..Len(objects), throws \in BOOLEAN :
       Commit(applierReturn(unapplyAfter(vimAdapterCall(World, throws), ref),
                            "unapply", ref))
  /\ UNCHANGED <<apiAvailable, backendRejects, discarded, file>>

MappingsInit ==
  /\ apiAvailable = TRUE
  /\ backendRejects = {}
  /\ operationQueue = <<>>
  /\ isProcessingQueue = FALSE
  /\ pq = IdleFrame
  /\ backendLog = <<>>
  /\ adapterEvents = <<>>
  /\ requested = <<>>
  /\ discarded = {}
  /\ requeued = FALSE
  /\ file = NoFile
  /\ ServicesInit

MappingsNext ==
  \/ HandleCommand
  \/ HandlerCleanup
  \/ ApplyMapping
  \/ UnapplyMapping

SpecMappings == MappingsInit /\ [][MappingsNext]_vars

(***************************************************************************)
(* load() and reload() of a file of one line, which begins with a keyword  *)
(* of the documented vocabulary in lower, upper or mixed case.             *)
(***************************************************************************)
Vocabulary ==
  {"map", "nmap", "imap", "vmap", "noremap", "nnoremap", "inoremap",
   "vnoremap", "unmap", "nunmap", "iunmap", "vunmap", "obmap", "nobmap",
   "iobmap", "vobmap", "exmap", "obcommand", "amap", "let"}

\* The keyword with its first letter in upper case.
Capitalised(keyword) == toUpperCase(Head(keyword)) \o Tail(keyword)

KeywordSpellings(keyword) ==
  {keyword, toUpperCase(keyword), Capitalised(keyword)}

KeywordLines ==
  {spelling \o " a b" : spelling \in UNION {KeywordSpellings(k) : k \in Vocabulary}}

KeywordsInit ==
  /\ apiAvailable \in BOOLEAN
  /\ backendRejects = {}
  /\ operationQueue = <<>>
  /\ isProcessingQueue = FALSE
  /\ pq = IdleFrame
  /\ backendLog = <<>>
  /\ adapterEvents = <<>>
  /\ requested = <<>>
  /\ discarded = {}
  /\ requeued = FALSE
  /\ file \in {[exists |-> TRUE, content |-> c] : c \in KeywordLines}
  /\ ServicesInit

SpecKeywords == KeywordsInit /\ [][ApplyNext]_vars

(***************************************************************************)
(* The plugin's callers of the Load Coordinator: onLayoutReady, the        *)
(* settings tab and the debounced file watcher.  A call is followed through *)
(* the two places where it waits for the file system, the only waits       *)
(* during which a timer or an event of the host can run.                   *)
(***************************************************************************)
\* A load() or reload() call: who made it and where it stands.
LoaderCall(call, via) == [call |-> call, via |-> via, pc |-> "detect"]

startCall(w, call, via) ==
  [w EXCEPT !.plugin.calls = Append(@, LoaderCall(call, via))]

\* The callback of the debounce timer: loader.reload().
debounceCallback(w) ==
  startCall([w EXCEPT !.plugin.debounceTimer = FALSE], "reload", "watcher")

\* debouncedReload(): the pending timer is cleared and a new one is armed.
debouncedReload(w) == [w EXCEPT !.plugin.debounceTimer = TRUE]

\* workspace.onLayoutReady: loader.load().
LayoutReady ==
  /\ ~plugin.layoutReady
  /\ Commit(startCall([World EXCEPT !.plugin.layoutReady = TRUE], "load", "layout"))
  /\ UNCHANGED <<apiAvailable, backendRejects, discarded, file>>

\* The settings tab's onReload: loader.reload().
SettingsReload ==
  /\ Len(plugin.calls) < MaxLoads
  /\ Commit(startCall(World, "reload", "settings"))
  /\ UNCHANGED <<apiAvailable, backendRejects, discarded, file>>

\* The vault reports that the vimrc file was modified.
FileModified ==
  /\ Commit(debouncedReload(World))
  /\ UNCHANGED <<apiAvailable, backendRejects, discarded, file>>

\* The debounce timer fires.
DebounceFires ==
  /\ plugin.debounceTimer
  /\ Len(plugin.calls) < MaxLoads
  /\ Commit(debounceCallback(World))
  /\ UNCHANGED <<apiAvailable, backendRejects, discarded, file>>

\* The file system answers a call that waits in detectVimrcFile or
\* readVimrcFile; after the second answer the call runs to its return.
FileSystemAnswers ==
  /\ \E i \in 1..Len(plugin.calls) :
       /\ plugin.calls[i].pc # "returned"
       /\ Commit([World EXCEPT !.plugin.calls[i].pc =
                                 IF @ = "detect" THEN "read" ELSE "returned"])
  /\ UNCHANGED <<apiAvailable, backendRejects, discarded, file>>

WatchNext ==
  \/ LayoutReady
  \/ SettingsReload
  \/ FileModified
  \/ DebounceFires
  \/ FileSystemAnswers

SpecWatch == MappingsInit /\ [][WatchNext]_vars

(***************************************************************************)
(* The MappingHandler over map and unmap commands of several modes and     *)
(* keys, one handle() call at a time.                                      *)
(***************************************************************************)
StoreCommands ==
  {ParsedCommand("nmap", <<"a", "b">>, 1, "nmap a b"),
   ParsedCommand("imap", <<"a", "b">>, 2, "imap a b"),
   ParsedCommand("map", <<"a", "b">>, 3, "map a b"),
   ParsedCommand("nmap", <<"<leader>a", "b">>, 4, "nmap <leader>a b"),
   ParsedCommand("nunmap", <<"a">>, 5, "nunmap a"),
   ParsedCommand("iunmap", <<"a">>, 6, "iunmap a"),
   ParsedCommand("unmap", <<"a">>, 7, "unmap a"),
   ParsedCommand("nunmap", <<"<Leader>a">>, 8, "nunmap <Leader>a")}

HandleStoreCommand ==
  /\ Len(events) < MaxStoreEvents
  /\ \E command \in StoreCommands :
       /\ command.type \in UNMAP_COMMAND_TYPES \/ Len(objects) < MaxObjects
       /\ Commit(MappingHandler_handle(World, command, clock))
  /\ UNCHANGED <<apiAvailable, backendRejects, discarded, file>>

UnmapNext == HandleStoreCommand

SpecUnmap == MappingsInit /\ [][UnmapNext]_vars

(***************************************************************************)
(* Claims about the Backend Adapter (checked under SpecAdapter).           *)
(***************************************************************************)
Invoked == {backendLog[i].op : i \in 1..Len(backendLog)}
ViaQueue == {i \in 1..Len(backendLog) : backendLog[i].via = "queue"}

\* C1 (as stated): a call queued while the backend was unavailable is invoked
\* once the backend is available, with no further call into the Adapter.  A
\* state in which the backend is available, operations are queued and no drain
\* loop is running refutes it: nothing will ever invoke them.
C1_NoStrandedOperation ==
  (apiAvailable /\ pq.pc = "idle") => operationQueue = <<>>

\* C1 (amended): no call is invoked twice; the drain loop leaves operations in
\* the queue only by exhausting its retry budget (maxRetries consecutive
\* unavailable probes), which it reports with an unavailable notification; a
\* loop that ends otherwise has invoked every queued, undiscarded call.
C1_QueuedCallInvokedOnceWithinBudget ==
  /\ \A i, j \in 1..Len(backendLog) :
       backendLog[i].op.req = backendLog[j].op.req => i = j
  /\ Invoked \cap Range(operationQueue) = {}
  /\ (pq.pc = "idle" /\ operationQueue # <<>>) =>
       /\ pq.exit = "exhausted"
       /\ adapterEvents # <<>>
       /\ adapterEvents[Len(adapterEvents)].type = "VIM_UNAVAILABLE"
  /\ (pq.pc = "idle" /\ operationQueue = <<>>) =>
       \A i \in 1..Len(requested) : requested[i] \in Invoked \cup discarded

\* C1 witness: one call, made while the backend was unavailable, has been
\* invoked from the queue and the caller made no other call.
C1_Witness ==
  /\ Len(requested) = 1
  /\ Len(backendLog) = 1
  /\ backendLog[1].op = requested[1]
  /\ backendLog[1].via = "queue"
  /\ pq.pc = "idle"

\* C2: whenever control is outside the Adapter, every requested operation has
\* been invoked on the backend or is still queued, unless clearQueue() or
\* cleanup() discarded it.
C2_NeverLosesOperation ==
  CallerMayRun =>
    \A i \in 1..Len(requested) :
      requested[i] \in Invoked \cup Range(operationQueue) \cup discarded

\* C2 witness: an operation was put back by executeOperation, nothing was
\* discarded, and every request has since been invoked.
C2_Witness ==
  /\ requeued
  /\ discarded = {}
  /\ pq.pc = "idle"
  /\ Len(requested) >= 2
  /\ \A i \in 1..Len(requested) : requested[i] \in Invoked

\* C3: the operations invoked from the queue reach the backend in the order in
\* which they were enqueued, also after a put-back at the front.
C3_QueueIsFifo ==
  \A i, j \in ViaQueue : i < j => backendLog[i].op.req < backendLog[j].op.req

\* C3 witness: after a put-back, two queued operations have been invoked.
C3_Witness ==
  /\ requeued
  /\ Cardinality(ViaQueue) >= 2

\* The queue holds its operations in the order in which they were requested.
QueueInRequestOrder ==
  operationQueue = SelectSeq(requested, LAMBDA op : op \in Range(operationQueue))

\* The step of the drain loop that finds its retry budget spent and the queue
\* non-empty: one unavailable notification, the loop over, the queue as it was.
ExhaustedExit ==
  (/\ pq.pc = "outer"
   /\ pq.retries >= maxRetries
   /\ operationQueue # <<>>
   /\ pq' # pq) =>
    /\ Len(adapterEvents') = Len(adapterEvents) + 1
    /\ adapterEvents'[Len(adapterEvents')].type = "VIM_UNAVAILABLE"
    /\ SubSeq(adapterEvents', 1, Len(adapterEvents)) = adapterEvents
    /\ pq'.pc = "idle"
    /\ ~isProcessingQueue'
    /\ operationQueue' = operationQueue

\* C14: a drain loop that has spent its retry budget on a non-empty queue
\* emits exactly one unavailable notification and exits, and the queued
\* operations stay queued in the order in which they were requested.
C14_ExhaustedDrainKeepsQueue ==
  []QueueInRequestOrder /\ [][ExhaustedExit]_vars

\* C14 witness: the loop has ended on a spent budget with two operations
\* queued, and the last notification is the unavailable one.
C14_Witness ==
  /\ pq.pc = "idle"
  /\ pq.exit = "exhausted"
  /\ Len(operationQueue) >= 2
  /\ adapterEvents # <<>>
  /\ adapterEvents[Len(adapterEvents)].type = "VIM_UNAVAILABLE"

(***************************************************************************)
(* Claims about waitForReady() (checked under SpecReady).                  *)
(***************************************************************************)
\* The promises whose poller has a timer pending.
Pollers == {p \in 1..Len(promises) : promises[p].timer}

\* C12: at most one poller is active at any time, and a waitForReady() call
\* made while a wait is in flight and the backend is unavailable returns the
\* promise of that wait.
C12_OnePollerPerAdapter ==
  /\ Cardinality(Pollers) <= 1
  /\ \A i \in 1..Len(waits) :
       (waits[i].pending # {} /\ ~waits[i].available) =>
         waits[i].promise \in waits[i].pending

\* C13: a promise of waitForReady() is pending only while its poller has
\* polled fewer than maxAttempts times; a resolved one was returned with the
\* backend available or resolved by a poll that emitted the ready
\* notification; a rejected one was rejected by the poll number maxAttempts,
\* which emitted the unavailable notification.
C13_WaitSettlesWithinMaxAttempts ==
  \A p \in 1..Len(promises) :
    LET promise == promises[p]
    IN /\ promise.attempts <= maxAttempts
       /\ promise.status = "pending" =>
            promise.timer /\ promise.attempts < maxAttempts
       /\ promise.status = "resolved" =>
            /\ ~promise.timer
            /\ adapterEvents[promise.event].type = "VIM_READY"
       /\ promise.status = "rejected" =>
            /\ ~promise.timer
            /\ promise.attempts = maxAttempts
            /\ adapterEvents[promise.event].type = "VIM_UNAVAILABLE"

\* C13 witness: one promise was rejected by its last poll, another resolved by
\* a poll.
C13_Witness ==
  /\ \E p \in 1..Len(promises) :
       promises[p].status = "rejected" /\ promises[p].attempts = maxAttempts
  /\ \E p \in 1..Len(promises) :
       promises[p].status = "resolved" /\ promises[p].attempts > 0

(***************************************************************************)
(* Claims about load() and reload() (checked under SpecLoader).            *)
(***************************************************************************)
\* The calls that have returned or rejected, and the last of them.
Calls == 1..Len(results)
LastCall == results[Len(results)]
BetweenCalls == ld.pc = "idle" /\ results # <<>>

\* The notifications of a type emitted during call g.
EventsOf(type, g) ==
  {k \in 1..Len(events) : events[k].type = type /\ events[k].gen = g}

\* Two reload() calls in succession that both loaded the same file content.
SuccessiveReloads ==
  {i \in Calls \ {1} :
     /\ results[i - 1].call = "reload" /\ results[i].call = "reload"
     /\ results[i - 1].result.success /\ results[i].result.success
     /\ results[i - 1].content # ""
     /\ results[i - 1].content = results[i].content}

\* C4: the second of two successive reload() calls on the same content returns
\* the mappingCount of the first, and emits no conflict notification against a
\* mapping left by an earlier call.
C4_ReloadTwiceSameCount ==
  \A i \in SuccessiveReloads :
    /\ results[i].result.mappingCount = results[i - 1].result.mappingCount
    /\ \A k \in EventsOf("MAPPING_CONFLICT", results[i].gen) :
         objects[events[k].payload.existingMapping].gen = results[i].gen

\* C5: once a reload has re-parsed the file, the variable table holds only
\* variables assigned by the reloaded content, and the commands are those a
\* parser with an empty table makes of that content.
C5_VariablesClearedOnReload ==
  (ld.call = "reload" /\ ld.pc \in {"exec", "apply"}) =>
    /\ \A i \in 1..Len(variables) : variables[i].gen = ld.gen
    /\ ld.commands = parse(<<>>, ld.content, ld.gen).commands

LeaderLets ==
  {j \in 1..(ld.idx - 1) :
     /\ ld.commands[j].type = "let"
     /\ letMatch(join(ld.commands[j].args, " ")).matched
     /\ letMatch(join(ld.commands[j].args, " ")).varName = "mapleader"}

\* C7: when the load is about to handle a mapping command that follows a
\* `let mapleader = v` line, the Mapping Handler's leader key is the one the
\* Let Handler derives from that line.
C7_LeaderKeyFollowsLet ==
  (/\ ld.pc = "exec"
   /\ ld.idx <= Len(ld.commands)
   /\ ld.commands[ld.idx].type \in MAPPING_COMMAND_TYPES
   /\ LeaderLets # {}) =>
    LET j == CHOOSE m \in LeaderLets : \A n \in LeaderLets : n <= m
    IN leaderKey = LetHandler_handle(World, ld.commands[j]).leaderKey

\* The tracked mapping of (x, Normal), if any.
TrackedX == MapGet(appliedMappings, getMappingKey("x", "normal"))

OneMappingPerPair ==
  \A i, j \in 1..Len(appliedMappings) :
    /\ appliedMappings[i].key = appliedMappings[j].key => i = j
    /\ appliedMappings[i].key =
         getMappingKey(objects[appliedMappings[i].ref].source,
                       objects[appliedMappings[i].ref].mode)

\* A step that puts a mapping with another id in the place of a tracked one
\* emits a conflict notification naming the two.
ReplacementNotified ==
  \A i \in 1..Len(appliedMappings) :
    \A j \in 1..Len(appliedMappings') :
      (/\ appliedMappings[i].key = appliedMappings'[j].key
       /\ objects[appliedMappings[i].ref].id # objects'[appliedMappings'[j].ref].id) =>
        \E k \in (Len(events) + 1)..Len(events') :
          /\ events'[k].type = "MAPPING_CONFLICT"
          /\ events'[k].payload.existingMapping = appliedMappings[i].ref
          /\ events'[k].payload.newMapping = appliedMappings'[j].ref

\* C9: the tracking table holds at most one mapping per (source, mode) pair,
\* and an apply that replaces a tracked mapping by one with a different id
\* emits, in that apply, a conflict notification naming both.
C9_NoSilentOverwrite ==
  []OneMappingPerPair /\ [][ReplacementNotified]_vars

\* C9 witness: a conflict notification has been emitted, and its new mapping
\* is now tracked under the pair its existing mapping was tracked under.
C9_Witness ==
  \E k \in 1..Len(events) :
    /\ events[k].type = "MAPPING_CONFLICT"
    /\ objects[events[k].payload.existingMapping].id #
         objects[events[k].payload.newMapping].id
    /\ \E i \in 1..Len(appliedMappings) :
         /\ appliedMappings[i].ref = events[k].payload.newMapping
         /\ appliedMappings[i].key =
              getMappingKey(objects[events[k].payload.existingMapping].source,
                            objects[events[k].payload.existingMapping].mode)

\* C10 (as stated): every call returns, and a call during which an exception
\* was raised, by the file system or by the backend, returns success = false.
C10_ExceptionsYieldFailedResult ==
  \A i \in Calls :
    /\ results[i].outcome = "returned"
    /\ (results[i].fileRaised \/ results[i].backendRaised) =>
         ~results[i].result.success

\* C10 (amended): every call returns; a call during which the file system
\* raised an exception, or whose catch block ran, returns success = false
\* with the error recorded.
C10_LoadAndReloadNeverReject ==
  \A i \in Calls :
    /\ results[i].outcome = "returned"
    /\ (results[i].fileRaised \/ results[i].caught) =>
         /\ ~results[i].result.success
         /\ results[i].result.errors # <<>>

\* C10 witness: a load has returned after the file probe failed, and a reload
\* has returned its result although the backend raised an exception during it.
C10_Witness ==
  /\ \E i \in Calls :
       results[i].call = "load" /\ results[i].fileRaised /\ results[i].caught
  /\ \E i \in Calls :
       /\ results[i].call = "reload"
       /\ results[i].backendRaised
       /\ results[i].result.success

(***************************************************************************)
(* Claims about the Dispatch Registry (checked under SpecRegistry).        *)
(***************************************************************************)
\* The last call on the registry was of this kind.
LastWas(api) == registryCall.api = api

\* A handler threw during the last call.
HandlerThrew == registryCall.thrown # NoError

\* C15: a route call during which the selected handler's handle threw has
\* returned normally, after one error-occurred notification that carries the
\* handler's error and whose context names route and the command's type.
C15_RouteIsolatesHandlerErrors ==
  LastWas("route") =>
    /\ registryCall.outcome = "returned"
    /\ HandlerThrew =>
         /\ Len(events) = registryCall.eventsBefore + 1
         /\ events[Len(events)].type = "ERROR_OCCURRED"
         /\ events[Len(events)].payload.error = registryCall.thrown
         /\ startsWith(events[Len(events)].payload.context, "CommandRegistry.route")
         /\ endsWith(events[Len(events)].payload.context, ": " \o registryCall.type)

\* C15 witness: a route call whose new-interface handler threw has returned.
C15_Witness ==
  /\ LastWas("route")
  /\ HandlerThrew
  /\ registryCall.invoked # <<>>
  /\ registryCall.invoked[1].method = "handle"
  /\ registryCall.outcome = "returned"

\* C16: an execute call during which the selected handler threw has rejected
\* with the error that handler threw.
C16_ExecutePropagatesHandlerErrors ==
  (LastWas("execute") /\ HandlerThrew) =>
    /\ registryCall.outcome = "rejected"
    /\ registryCall.error = registryCall.thrown
    /\ Len(registryCall.invoked) = 1
    /\ registryCall.thrown = Error(registryCall.invoked[1].handler)
    /\ Len(events) = registryCall.eventsBefore

\* C16 witness: an execute call whose handler threw has rejected.
C16_Witness ==
  /\ LastWas("execute")
  /\ HandlerThrew
  /\ registryCall.invoked # <<>>
  /\ registryCall.invoked[1].method = "handle"
  /\ registryCall.outcome = "rejected"

\* The positions, in the list route found for the command's type, of the
\* handlers whose canHandle accepted the command.
Accepting ==
  {i \in 1..Len(registryCall.candidates) :
     registryCall.candidates[i] \in registryCall.accepts}

\* C17: a route call has returned normally; if a handler registered for the
\* command's type accepted the command, handle was invoked once, on the first
\* such handler in registration order, and on nothing else; otherwise handle
\* was invoked on none of the registered handlers.
C17_RouteInvokesFirstAccepting ==
  LastWas("route") =>
    /\ registryCall.outcome = "returned"
    /\ Len(registryCall.invoked) <= 1
    /\ IF Accepting # {}
         THEN registryCall.invoked =
                <<[method |-> "handle",
                   handler |-> registryCall.candidates[
                                 CHOOSE i \in Accepting : \A j \in Accepting : i <= j]]>>
         ELSE \A k \in 1..Len(registryCall.invoked) :
                registryCall.invoked[k].method # "handle"

\* C17 witness: two handlers were registered for the type, the first did not
\* accept the command and the second handled it.
C17_Witness ==
  /\ LastWas("route")
  /\ Len(registryCall.candidates) = 2
  /\ registryCall.candidates[1] \notin registryCall.accepts
  /\ registryCall.candidates[2] \in registryCall.accepts
  /\ registryCall.invoked =
       <<[method |-> "handle", handler |-> registryCall.candidates[2]]>>

\* The cleanup invocations of the last call on handler h.
CleanupsOf(h) ==
  {k \in 1..Len(registryCall.invoked) :
     registryCall.invoked[k] = [method |-> "cleanup", handler |-> h]}

\* C18: a cleanup() call has returned after invoking cleanup exactly once on
\* every handler registered before it, whichever of them threw, and the
\* registry then holds no handler.
C18_CleanupReachesEveryHandlerOnce ==
  LastWas("cleanup") =>
    /\ registryCall.outcome = "returned"
    /\ \A h \in registryCall.registeredBefore : Cardinality(CleanupsOf(h)) = 1
    /\ \A k \in 1..Len(registryCall.invoked) :
         registryCall.invoked[k].handler \in registryCall.registeredBefore
    /\ allHandlers = <<>>
    /\ allLegacyHandlers = <<>>
    /\ \A type \in CommandType : ~hasHandler(World, type)

\* C18 witness: the handler of two command types was cleaned up first and
\* threw, and the handlers after it were cleaned up all the same.
C18_Witness ==
  /\ LastWas("cleanup")
  /\ Len(registryCall.invoked) = 3
  /\ registryCall.invoked[1].handler = "h1"
  /\ "h1" \in registryCall.accepts
  /\ Len(events) = registryCall.eventsBefore + 1

\* C19: unregister(h) leaves h in the list of none of its command types; a
\* route or execute call invokes only handlers that are registered; and
\* hasHandler is true only of a type that a registered handler serves.
C19_UnregisterRemovesHandler ==
  /\ LastWas("unregister") =>
       \A type \in CommandType : registryCall.handler \notin Range(handlers[type])
  /\ (LastWas("route") \/ LastWas("execute")) =>
       \A k \in 1..Len(registryCall.invoked) :
         registryCall.invoked[k].handler \in registryCall.registeredBefore
  /\ \A type \in RegistryTypes :
       hasHandler(World, type) =>
         \/ \E h \in registered \cap Handlers : type \in Range(supportedTypes(h))
         \/ \E h \in registered \cap LegacyHandlers : h \in Range(legacyHandlers[type])

(***************************************************************************)
(* Claims about applyAll() (checked under SpecApply).                      *)
(***************************************************************************)
\* The mappings the Mapping Store holds, as references.
Stored == {mappings[i].ref : i \in 1..Len(mappings)}

\* C11: when the backend has failed on a mapping during a load of the file,
\* the load still succeeds and every stored mapping has been applied in it:
\* an applied notification of that load names it, its status is applied and
\* the Applier tracks its pair.
C11_BadMappingDoesNotAbortLoad ==
  (BetweenCalls /\ LastCall.backendRaised /\ LastCall.content # "") =>
    /\ LastCall.result.success
    /\ LastCall.result.mappingCount = Len(mappings)
    /\ \A ref \in Stored :
         /\ objects[ref].status = "applied"
         /\ MapHas(appliedMappings,
                   getMappingKey(objects[ref].source, objects[ref].mode))
         /\ \E k \in EventsOf("MAPPING_APPLIED", LastCall.gen) :
              events[k].payload.mapping = ref

\* C11 witness: the first load has returned with three stored mappings after
\* the backend threw on the second of them, and the third reached the backend.
C11_Witness ==
  /\ BetweenCalls
  /\ Len(results) = 1
  /\ LastCall.backendRaised
  /\ Len(mappings) = 3
  /\ \E i, j \in 1..Len(backendLog) :
       /\ i < j
       /\ backendLog[i].op.args[1] = "c" /\ backendLog[i].threw
       /\ backendLog[j].op.args[1] = "e" /\ ~backendLog[j].threw

\* The key sequences of the binding calls the backend received, in order.
BoundKeys ==
  LET bound == SelectSeq(backendLog, LAMBDA e : e.op.type \in {"map", "noremap"})
  IN [i \in 1..Len(bound) |-> bound[i].op.args[1]]

\* The applied notifications, in order.
AppliedEvents == SelectSeq(events, LAMBDA e : e.type = "MAPPING_APPLIED")

\* C20: the backend receives the binding calls of every load of `nmap a b`,
\* `nmap c d`, `nmap e f` in the order a, c, e, and the mappings applied in
\* one load are applied in the order of their source lines.
C20_AppliedInSourceOrder ==
  /\ \A i \in 1..Len(BoundKeys) : BoundKeys[i] = <<"a", "c", "e">>[((i - 1) % 3) + 1]
  /\ \A i, j \in 1..Len(AppliedEvents) :
       (i < j /\ AppliedEvents[i].gen = AppliedEvents[j].gen) =>
         objects[AppliedEvents[i].payload.mapping].lineNumber <
           objects[AppliedEvents[j].payload.mapping].lineNumber

\* C20 witness: a load and a reload have each put the three bindings to the
\* backend.
C20_Witness ==
  /\ BetweenCalls
  /\ Len(results) >= 2
  /\ Len(BoundKeys) = 6
  /\ Len(AppliedEvents) = 6


(***************************************************************************)
(* Claims about the execution of the parsed commands and about the parser  *)
(* (checked under SpecFiles and SpecLoader).                               *)
(***************************************************************************)
\* The commands executeCommands has gone through so far, as indices into
\* the parsed commands.
Examined ==
  IF ld.pc = "exec" THEN 1..(ld.idx - 1)
  ELSE IF ld.pc = "apply" THEN 1..Len(ld.commands)
  ELSE {}

SkippedTypes == {"comment", "unknown", "let"}

\* C21: within one call the commands are routed in strictly increasing
\* source-line order, and the routing of a command begins when no route()
\* call of the same load is still unsettled.
C21_RoutedInLineOrderOneAtATime ==
  /\ \A i, j \in 1..Len(ld.routed) :
       i < j => ld.routed[i].lineNumber < ld.routed[j].lineNumber
  /\ \A i \in 1..Len(ld.routed) : ld.routed[i].inFlight = 0
  /\ ld.inFlight = 0

\* C21 witness: the load has routed two commands.
C21_Witness ==
  /\ ld.pc = "apply"
  /\ Len(ld.routed) >= 2

\* C22: the commands passed to the registry are, each once, exactly those of
\* the commands gone through whose type is none of comment, unknown and let.
C22_RoutedIffNotSkipped ==
  /\ {ld.routed[i].index : i \in 1..Len(ld.routed)} =
       {k \in Examined : ld.commands[k].type \notin SkippedTypes}
  /\ \A i, j \in 1..Len(ld.routed) :
       ld.routed[i].index = ld.routed[j].index => i = j
  /\ \A i \in 1..Len(ld.routed) :
       /\ ld.routed[i].type \notin SkippedTypes
       /\ ld.routed[i].type = ld.commands[ld.routed[i].index].type

\* C22 witness: of the commands of a file, a let command was skipped and a
\* mapping command routed; of those of another, an unknown command was skipped.
C22_Witness ==
  /\ ld.pc = "apply"
  /\ ld.routed # <<>>
  /\ \/ \E k \in 1..Len(ld.commands) : ld.commands[k].type = "let"
     \/ \E k \in 1..Len(ld.commands) : ld.commands[k].type = "unknown"
  /\ Len(ld.routed) < Len(ld.commands)

\* The (source, target) pairs of the mappings in the store.
StoredPairs == {<<objects[ref].source, objects[ref].target>> : ref \in Stored}

\* C23: of a file with an unrecognized keyword between two nmap lines, the
\* parser yields the three commands with the second tagged unknown and one
\* warning; the load returns that one warning, and both mappings are in the
\* store.
C23_UnknownLineWarnsAndIsSkipped ==
  file.content = UnknownBetween =>
    /\ ld.pc \in {"exec", "apply"} =>
         /\ [k \in 1..Len(ld.commands) |-> ld.commands[k].type] =
              <<"nmap", "unknown", "nmap">>
         /\ [k \in 1..Len(ld.commands) |-> ld.commands[k].lineNumber] = <<1, 2, 3>>
         /\ Len(ld.result.warnings) = 1
         /\ ld.result.warnings[1].lineNumber = 2
    /\ \A i \in Calls :
         results[i].content = UnknownBetween =>
           /\ results[i].outcome = "returned"
           /\ results[i].result.success
           /\ Len(results[i].result.warnings) = 1
           /\ results[i].result.errors = <<>>
           /\ results[i].result.mappingCount = 2
    /\ (BetweenCalls /\ LastCall.content = UnknownBetween) =>
         /\ StoredPairs = {<<"a", "b">>, <<"c", "d">>}
         /\ Cardinality(Stored) = 2

\* C23 witness: a load of the file has returned.
C23_Witness ==
  /\ BetweenCalls
  /\ LastCall.content = UnknownBetween
  /\ Len(LastCall.result.warnings) = 1
  /\ Cardinality(Stored) = 2

\* C24: a call that found no vimrc file has returned success = true,
\* path = null, mappingCount = 0 and no errors or warnings, and no error
\* notification was emitted during it.
C24_MissingFileIsSilentSuccess ==
  \A i \in Calls :
    results[i].probe = "missing" =>
      /\ results[i].outcome = "returned"
      /\ results[i].result = LoadResult(TRUE, "", 0, <<>>, <<>>)
      /\ EventsOf("ERROR_OCCURRED", results[i].gen) = {}
      /\ EventsOf("VIMRC_ERROR", results[i].gen) = {}

\* C24 witness: load() has returned from a vault without a vimrc file.
C24_Witness ==
  \E i \in Calls :
    /\ results[i].call = "load"
    /\ results[i].probe = "missing"
    /\ results[i].outcome = "returned"

\* C25: after let mapleader = ",", the line nmap <leader>w :w<CR> is parsed
\* to the arguments ,w and :w<CR>, and the mapping stored for it has source
\* ,w and target :w<CR>.
C25_LeaderSubstitutedInMapping ==
  file.content = LeaderW =>
    /\ ld.pc \in {"exec", "apply"} =>
         /\ Len(ld.commands) = 2
         /\ ld.commands[2].args = <<",w", ":w<CR>">>
    /\ StoredPairs \subseteq {<<",w", ":w<CR>">>}
    /\ (BetweenCalls /\ LastCall.content = LeaderW) => Cardinality(Stored) = 1

\* C25 witness: a load of the file has returned with the mapping stored.
C25_Witness ==
  /\ BetweenCalls
  /\ LastCall.content = LeaderW
  /\ StoredPairs = {<<",w", ":w<CR>">>}

\* C26: after let mapleader = ",", the tokens <Leader> and <LEADER> of the
\* later lines are replaced by "," in the parsed arguments, and the mappings
\* stored for them have the sources ,w and ,x.
C26_PlaceholderMatchedInAnyCase ==
  file.content = LeaderCases =>
    /\ ld.pc \in {"exec", "apply"} =>
         /\ Len(ld.commands) = 3
         /\ ld.commands[2].args = <<",w", "y">>
         /\ ld.commands[3].args = <<",x", "z">>
    /\ StoredPairs \subseteq {<<",w", "y">>, <<",x", "z">>}

\* C27: after let g:mapleader = ",", the parser's table has the value under
\* the key leader, and <leader> of the next line is replaced by it.
C27_ScopedMapleaderSetsLeader ==
  (file.content = ScopedLeader /\ ld.pc \in {"exec", "apply"}) =>
    /\ MapHas(variables, "leader")
    /\ MapGet(variables, "leader").value = ","
    /\ ld.commands[2].args = <<",w", "y">>

C28_IdsUniquePerStore ==
  \A i, j \in 1..Len(objects) : i # j => objects[i].id # objects[j].id

\* C29: when the last call on the Applier was unapply(mapping), returned or
\* re-raised, the table tracks no mapping under the mapping's mode and
\* source, and the mapping's status is removed.
C29_UnapplyUntracksAndMarksRemoved ==
  applierCall.api = "unapply" =>
    LET mapping == objects[applierCall.ref]
    IN /\ ~MapHas(appliedMappings, getMappingKey(mapping.source, mapping.mode))
       /\ mapping.status = "removed"


(***************************************************************************)
(* Claims about unmap commands (checked under SpecUnmap).                  *)
(***************************************************************************)
\* The mode an unmap keyword names; bare unmap names none.
UnmapKeywordMode ==
  [nunmap |-> "normal", iunmap |-> "insert", vunmap |-> "visual"]

\* The stored mapping e is one the unmap command is about: its source is the
\* command's key with the leader key in place of <leader>, and its mode is the
\* one of the keyword.
UnmapTargets(command, e) ==
  /\ objects[e.ref].source =
       replaceAll(command.args[1], "<leader>", leaderKey, TRUE)
  /\ command.type \in DOMAIN UnmapKeywordMode =>
       objects[e.ref].mode = UnmapKeywordMode[command.type]

HandledUnmap(command) ==
  Commit(MappingHandler_handle(World, command, clock))

\* C31: a step in which the handler handles an unmap-family command for key
\* k removes from the store exactly the mappings whose source is the
\* leader-substituted k and whose mode is the keyword's (any mode for bare
\* unmap), announces each removal, and changes no mapping.
C31_UnmapRemovesExactlyItsTargets ==
  [][\A command \in {c \in StoreCommands : c.type \in UNMAP_COMMAND_TYPES} :
       HandledUnmap(command) =>
         /\ mappings' =
              SelectSeq(mappings, LAMBDA e : ~UnmapTargets(command, e))
         /\ objects' = objects
         /\ Len(events') - Len(events) = Len(mappings) - Len(mappings')
         /\ \A i \in Len(events) + 1..Len(events') :
              events'[i].type = "MAPPING_REMOVED"]_vars

\* C31 witness: the last notification is the removal of a mapping, and the
\* store still holds a mapping of the same source in another mode and a
\* mapping of another source.
C31_Witness ==
  /\ events # <<>>
  /\ LET last == events[Len(events)]
     IN /\ last.type = "MAPPING_REMOVED"
        /\ \E i, j \in 1..Len(mappings) :
             /\ objects[mappings[i].ref].source =
                  objects[last.payload.mapping].source
             /\ objects[mappings[i].ref].mode #
                  objects[last.payload.mapping].mode
             /\ objects[mappings[j].ref].source #
                  objects[last.payload.mapping].source


(***************************************************************************)
(* Claims about the keywords (checked under SpecKeywords).                 *)
(***************************************************************************)
\* The keyword the one-line file begins with, as the file spells it.
FileKeyword == splitSpaces(file.content)[1]

\* C32: a line that begins with a keyword of the documented vocabulary, in
\* any letter case, is parsed to one command whose kind is that keyword, and
\* the parser emits no warning for it.
C32_VocabularyKeywordHasItsOwnKind ==
  (ld.pc \in {"exec", "apply"} /\ toLowerCase(FileKeyword) \in Vocabulary) =>
    /\ Len(ld.commands) = 1
    /\ ld.commands[1].type = toLowerCase(FileKeyword)
    /\ ld.commands[1].type # "unknown"
    /\ ld.result.warnings = <<>>


(***************************************************************************)
(* Claims about the order and the restart of the drain (checked under     *)
(* SpecAdapter).                                                           *)
(***************************************************************************)
\* C33: the backend receives the operations of one Adapter in the order in
\* which the primitives were called, whether an operation went through the
\* queue or was invoked directly.
C33_BackendSeesRequestOrder ==
  \A i, j \in 1..Len(backendLog) :
    i < j => backendLog[i].op.req < backendLog[j].op.req


\* A primitive is called while no drain loop runs, the last one having ended
\* on a spent retry budget with operations still queued.
CallAfterExhaustion ==
  /\ pq.pc = "idle"
  /\ pq.exit = "exhausted"
  /\ operationQueue # <<>>
  /\ Len(requested') = Len(requested) + 1

\* C34: a primitive call made after the drain loop ended on a spent retry
\* budget with operations still queued starts the drain loop again, so that
\* the operations left in the queue are invoked when the backend is there.
C34_LaterCallRestartsDrain ==
  [][CallAfterExhaustion => (isProcessingQueue' /\ pq'.pc # "idle")]_vars


\* A primitive call enqueues an operation while a drain loop is running.
EnqueuedWhileDraining ==
  /\ pq.pc # "idle"
  /\ Len(operationQueue') = Len(operationQueue) + 1
  /\ Len(requested') = Len(requested) + 1

\* C35: at most one drain loop is running on an Adapter, the flag
\* isProcessingQueue tells whether one is, and a primitive call that enqueues
\* an operation while a loop is running leaves that loop where it stands and
\* starts no other.
C35_OneDrainLoop ==
  /\ [](pq.running <= 1)
  /\ [](isProcessingQueue <=> pq.running = 1)
  /\ [](isProcessingQueue <=> pq.pc # "idle")
  /\ [][EnqueuedWhileDraining => pq' = pq]_vars

\* C35 witness: two operations were enqueued, the second while the drain loop
\* started by the first was asleep, and that loop is still the only one.
C35_Witness ==
  /\ Len(operationQueue) = 2
  /\ pq.pc = "sleep"
  /\ pq.retries = 1
  /\ pq.running = 1
  /\ backendLog = <<>>


(***************************************************************************)
(* Claims about the status of a mapping (checked under SpecApply).         *)
(***************************************************************************)
\* The backend has received the map or noremap call of the mapping.
BindingInvoked(mapping) ==
  \E i \in 1..Len(backendLog) :
    /\ backendLog[i].op.type = IF mapping.recursive THEN "map" ELSE "noremap"
    /\ backendLog[i].op.args =
         <<mapping.source, mapping.target, modeToString(mapping.mode)>>

\* C36: a mapping whose status is applied has had its map or noremap call
\* invoked on the backend; a call that is only in the Adapter's queue does
\* not make a mapping applied.
C36_AppliedMeansInvoked ==
  \A ref \in 1..Len(objects) :
    objects[ref].status = "applied" => BindingInvoked(objects[ref])


(***************************************************************************)
(* Claims about the notifications of a load (checked under SpecLoader).    *)
(***************************************************************************)
\* C38: every load() or reload() that has returned after emitting a loading
\* notification has emitted exactly one notification that ends it, a loaded
\* or a vimrc-error one.
C38_LoadingIsFollowedByLoadedOrError ==
  \A i \in Calls :
    EventsOf("VIMRC_LOADING", results[i].gen) # {} =>
      Cardinality(EventsOf("VIMRC_LOADED", results[i].gen)
                  \cup EventsOf("VIMRC_ERROR", results[i].gen)) = 1


(***************************************************************************)
(* Claims about cleanup() (checked under SpecReady).                       *)
(***************************************************************************)
\* C40: a readiness poll that was pending when cleanup() was called emits no
\* ready and no unavailable notification afterwards.
C40_NoNotificationAfterCleanup ==
  \A p \in 1..Len(promises) : promises[p].cleaned => promises[p].event = 0


(***************************************************************************)
(* Claims about the file watcher (checked under SpecWatch).                *)
(***************************************************************************)
\* The calls of the Load Coordinator that have not returned.
InProgress == {i \in 1..Len(plugin.calls) : plugin.calls[i].pc # "returned"}

\* C37: a reload started by the debounced file watcher never runs while an
\* earlier load or reload of the Load Coordinator is still in progress.
C37_WatcherReloadsDoNotOverlap ==
  ~\E i, j \in InProgress : i < j /\ plugin.calls[j].via = "watcher"


(***************************************************************************)
(* Claims about the bindings a reload leaves (checked under SpecLoader).   *)
(***************************************************************************)
\* The key bindings the backend holds after the first n calls it received:
\* map and noremap bind a key sequence in a mode, unmap removes the binding;
\* a call on which the backend threw changes nothing.
RECURSIVE BackendBindings(_)
BackendBindings(n) ==
  IF n = 0 THEN {}
  ELSE LET e == backendLog[n]
           before == BackendBindings(n - 1)
       IN IF e.threw THEN before
          ELSE IF e.op.type \in {"map", "noremap"}
            THEN before \cup {<<e.op.args[1], e.op.args[3]>>}
          ELSE IF e.op.type = "unmap"
            THEN before \ {<<e.op.args[1], e.op.args[2]>>}
          ELSE before

\* The key sequence and mode of the stored mappings, and of those on whose
\* key sequence the backend does not throw.
StoredBindings ==
  {<<objects[r].source, modeToString(objects[r].mode)>> : r \in Stored}
AcceptedBindings == {b \in StoredBindings : b[1] \notin backendRejects}

\* C39: when a reload has returned, the Adapter's queue is empty and no drain
\* loop is running, the backend holds a binding for every stored mapping it
\* accepted and for nothing else: no binding of an earlier load is left.
C39_BackendBindingsAreTheStoredMappings ==
  (/\ BetweenCalls
   /\ LastCall.call = "reload"
   /\ operationQueue = <<>>
   /\ pq.pc = "idle") =>
    /\ BackendBindings(Len(backendLog)) \subseteq StoredBindings
    /\ AcceptedBindings \subseteq BackendBindings(Len(backendLog))

====
